---- MODULE Spec2Model ----
(***************************************************************************)
(* A model of ddlgenerator's schema-inference engine:                      *)
(*   typehelpers.py  coerce_to_specific, set_worst, best_representative,   *)
(*                   worst_decimal, best_coercable, precision_and_scale    *)
(*   ddlgenerator.py Table._determine_types, _fill_metadata_from_sample    *)
(*   reshape.py      clean_key_name, walk_and_clean, UniqueKey,            *)
(*                   ParentTable, unnest_child_dict, unnest_children       *)
(*                                                                         *)
(* Python values are records tagged by their Python type in field t.       *)
(* Text is a sequence of one-character strings, so that len(), strip(),    *)
(* ljust() and the parsers int(), Decimal(), float() are computed on the   *)
(* characters as the code computes them.  Integers and decimals keep their *)
(* digits (a sequence of digit characters), so printed lengths and the     *)
(* zero padding of set_worst are exact at any magnitude.                   *)
(***************************************************************************)
EXTENDS Integers, Sequences, FiniteSets, TLC

VARIABLES
    pc,         \* position of that entry point: "run" or "done"
    now,        \* the current date (datetime.datetime.now().date())
    data,       \* Table.data: the rows consumed so far, in order
    columns,    \* Table.columns: column name -> metadata
    comments,   \* Table.comments: column name -> diagnostic comment
    args,       \* arguments of the pure function applied (widen / coerce runs)
    result,     \* its result
    tbl         \* the reshaper's state: input rows and unnest_children's result

vars == <<pc, now, data, columns, comments, args, result, tbl>>

(***************************************************************************)
(* Characters and strings                                                  *)
(***************************************************************************)
DigitChars == <<"0", "1", "2", "3", "4", "5", "6", "7", "8", "9">>

Digits == {DigitChars[i] : i \in 1..10}

DigitChar(n) == DigitChars[n + 1]

DigitVal(c) == CHOOSE n \in 0..9 : DigitChars[n + 1] = c

Whitespace == {" "}

\* re.compile(r"[\-\. /]")
SeparatorChars == {"-", ".", " ", "/"}

LowerLetters ==
    <<"a", "b", "c", "d", "e", "f", "g", "h", "i", "j", "k", "l", "m",
      "n", "o", "p", "q", "r", "s", "t", "u", "v", "w", "x", "y", "z">>

UpperLetters ==
    <<"A", "B", "C", "D", "E", "F", "G", "H", "I", "J", "K", "L", "M",
      "N", "O", "P", "Q", "R", "S", "T", "U", "V", "W", "X", "Y", "Z">>

Letters == {LowerLetters[i] : i \in 1..26} \cup {UpperLetters[i] : i \in 1..26}

LowerOf(c) ==
    IF \E i \in 1..26 : UpperLetters[i] = c
    THEN LowerLetters[CHOOSE i \in 1..26 : UpperLetters[i] = c]
    ELSE c

UpperOf(c) ==
    IF \E i \in 1..26 : LowerLetters[i] = c
    THEN UpperLetters[CHOOSE i \in 1..26 : LowerLetters[i] = c]
    ELSE c

lower(s) == [i \in 1..Len(s) |-> LowerOf(s[i])]

upper(s) == [i \in 1..Len(s) |-> UpperOf(s[i])]

RECURSIVE lstrip(_, _)
lstrip(s, cs) ==
    IF s # <<>> /\ Head(s) \in cs THEN lstrip(Tail(s), cs) ELSE s

RECURSIVE rstrip(_, _)
rstrip(s, cs) ==
    IF s # <<>> /\ s[Len(s)] \in cs
    THEN rstrip(SubSeq(s, 1, Len(s) - 1), cs)
    ELSE s

strip(s) == rstrip(lstrip(s, Whitespace), Whitespace)

ljust(s, width, c) ==
    IF Len(s) >= width THEN s ELSE s \o [i \in 1..(width - Len(s)) |-> c]

Repeat(c, n) == [i \in 1..n |-> c]

CountIn(s, cs) == Cardinality({i \in 1..Len(s) : s[i] \in cs})

\* re.compile(r"^\d+$")
DigitsOnly(s) == s # <<>> /\ \A i \in 1..Len(s) : s[i] \in Digits

\* the digits of a digit string without its leading zeros ("0" for zero)
Canonical(ds) ==
    LET z == lstrip(ds, {"0"}) IN IF z = <<>> THEN <<"0">> ELSE z

IsZero(ds) == \A i \in 1..Len(ds) : ds[i] = "0"

RECURSIVE NatToStr(_)
NatToStr(n) ==
    IF n < 10 THEN <<DigitChar(n)>>
    ELSE NatToStr(n \div 10) \o <<DigitChar(n % 10)>>

RECURSIVE StrToNat(_)
StrToNat(ds) ==
    IF ds = <<>> THEN 0
    ELSE 10 * StrToNat(SubSeq(ds, 1, Len(ds) - 1)) + DigitVal(ds[Len(ds)])

Pad2(n) == IF n < 10 THEN <<"0">> \o NatToStr(n) ELSE NatToStr(n)

Max(a, b) == IF a >= b THEN a ELSE b

Range(f) == {f[i] : i \in DOMAIN f}

\* F at the value of e, which is evaluated once
Let(e, F(_)) == CHOOSE r \in {F(x) : x \in {e}} : TRUE

MinOf(S) == CHOOSE x \in S : \A y \in S : x <= y

(***************************************************************************)
(* Python values                                                           *)
(***************************************************************************)
PyNone == [t |-> "NoneType"]

PyBool(b) == [t |-> "bool", b |-> b]

PyStr(s) == [t |-> "str", s |-> s]

\* digs: the digits of the absolute value, without leading zeros
PyIntOf(neg, ds) ==
    [t |-> "int", neg |-> (neg /\ ~IsZero(ds)), digs |-> Canonical(ds)]

PyInt(n) == PyIntOf(n < 0, NatToStr(IF n < 0 THEN -n ELSE n))

\* Decimal: sign, coefficient digits and exponent, as Decimal.as_tuple()
PyDecimal(neg, ds, e) ==
    [t |-> "Decimal", neg |-> neg, digs |-> Canonical(ds), exp |-> e]

\* a float is kept as its shortest decimal repr: digits * 10^exp, exp <= -1
RECURSIVE FloatNorm(_, _)
FloatNorm(ds, e) ==
    IF e < -1 /\ ds[Len(ds)] = "0"
    THEN FloatNorm(SubSeq(ds, 1, Len(ds) - 1), e + 1)
    ELSE <<ds, e>>

PyFloat(neg, ds, e) ==
    LET n == IF e >= 0 THEN <<ds \o Repeat("0", e + 1), -1>> ELSE FloatNorm(ds, e)
    IN [t |-> "float", neg |-> neg, digs |-> Canonical(n[1]), exp |-> n[2]]

PyDatetime(y, m, d) == [t |-> "datetime", year |-> y, month |-> m, day |-> d]

\* an exception propagating out of a call
Raise(e) == [t |-> "raise", exc |-> e]

IsRaise(v) == v.t = "raise"

\* plain notation of digits * 10^e for e <= 0 (Decimal.__str__, float.__repr__)
PlainDigits(ds, e) ==
    LET left == Len(ds) + e IN
    IF e = 0 THEN ds
    ELSE IF left <= 0 THEN <<"0", ".">> \o Repeat("0", -left) \o ds
    ELSE SubSeq(ds, 1, left) \o <<".">> \o SubSeq(ds, left + 1, Len(ds))

Sign(neg) == IF neg THEN <<"-">> ELSE <<>>

\* repr(x) of an integer or a text without quotes in it
Repr(v) ==
    IF v.t = "str" THEN <<"'">> \o v.s \o <<"'">> ELSE Sign(v.neg) \o v.digs

\* ', '.join(...) of the printed items of a list or dict
RECURSIVE JoinItems(_)
JoinItems(parts) ==
    IF parts = <<>> THEN <<>>
    ELSE IF Len(parts) = 1 THEN Head(parts)
    ELSE Head(parts) \o <<",", " ">> \o JoinItems(Tail(parts))

\* str(x)
Str(v) ==
    CASE v.t = "NoneType" -> <<"N", "o", "n", "e">>
      [] v.t = "bool" -> IF v.b THEN <<"T", "r", "u", "e">>
                         ELSE <<"F", "a", "l", "s", "e">>
      [] v.t = "int" -> Sign(v.neg) \o v.digs
      [] v.t = "Decimal" -> Sign(v.neg) \o PlainDigits(v.digs, v.exp)
      [] v.t = "float" -> Sign(v.neg) \o PlainDigits(v.digs, v.exp)
      [] v.t = "str" -> v.s
      [] v.t = "list" ->
            <<"[">> \o JoinItems([i \in 1..Len(v.items) |-> Repr(v.items[i])])
            \o <<"]">>
      [] v.t = "dict" ->
            <<"{">> \o JoinItems([i \in 1..Len(v.items) |->
                                    <<"'">> \o v.items[i].k \o <<"'", ":", " ">>
                                    \o Repr(v.items[i].v)])
            \o <<"}">>
      [] v.t = "datetime" ->
            Repeat("0", 4 - Len(NatToStr(v.year))) \o NatToStr(v.year)
            \o <<"-">> \o Pad2(v.month)
            \o <<"-">> \o Pad2(v.day)
            \o <<" ", "0", "0", ":", "0", "0", ":", "0", "0">>

\* hasattr(x, '__neg__')
HasNeg(v) == v.t \in {"bool", "int", "Decimal", "float"}

\* x < 0 for a number
IsNegative(v) ==
    CASE v.t = "bool" -> FALSE
      [] OTHER -> v.neg /\ ~IsZero(v.digs)

\* abs(x); TypeError for a value that is no number
Abs(v) ==
    CASE v.t = "bool" -> PyIntOf(FALSE, IF v.b THEN <<"1">> ELSE <<"0">>)
      [] v.t \in {"int", "Decimal", "float"} -> [v EXCEPT !.neg = FALSE]
      [] OTHER -> Raise("TypeError")

\* -1 * abs(x) for a number
NegAbs(v) ==
    CASE v.t = "int" -> PyIntOf(TRUE, v.digs)
      [] OTHER -> [v EXCEPT !.neg = TRUE]
(***************************************************************************)
(* The parsers coerce_to_specific tries, in its order of preference        *)
(***************************************************************************)
\* except <handler>: does it catch exc?
Catches(handler, exc) == handler = "Exception" \/ handler = exc

\* the text after surrounding whitespace and one leading sign are removed
Unsigned(s) ==
    LET u == strip(s) IN
    IF u # <<>> /\ Head(u) \in {"-", "+"} THEN Tail(u) ELSE u

HasMinus(s) == LET u == strip(s) IN u # <<>> /\ Head(u) = "-"

\* int(s): optional whitespace, optional sign, digits
ParseInt(s) ==
    IF DigitsOnly(Unsigned(s)) THEN PyIntOf(HasMinus(s), Unsigned(s))
    ELSE Raise("ValueError")

\* digits with at most one ".", at least one digit
NumberSyntax(b) ==
    /\ \A i \in 1..Len(b) : b[i] \in Digits \cup {"."}
    /\ CountIn(b, {"."}) <= 1
    /\ CountIn(b, Digits) >= 1

DotAt(b) == IF CountIn(b, {"."}) = 0 THEN Len(b) + 1
            ELSE CHOOSE i \in 1..Len(b) : b[i] = "."

IntPart(b) == SubSeq(b, 1, DotAt(b) - 1)

FracPart(b) == SubSeq(b, DotAt(b) + 1, Len(b))

\* Decimal(s): the literal's digits and scale are kept
ParseDecimal(s) ==
    LET b == Unsigned(s) IN
    IF NumberSyntax(b)
    THEN PyDecimal(HasMinus(s), IntPart(b) \o FracPart(b), -Len(FracPart(b)))
    ELSE Raise("InvalidOperation")

\* float(s)
ParseFloat(s) ==
    LET b == Unsigned(s) IN
    IF NumberSyntax(b)
    THEN PyFloat(HasMinus(s), IntPart(b) \o FracPart(b), -Len(FracPart(b)))
    ELSE Raise("ValueError")

FalseWords == {<<"0">>, <<"f", "a", "l", "s", "e">>, <<"f">>, <<"n">>, <<"n", "o">>}

TrueWords == {<<"1">>, <<"t", "r", "u", "e">>, <<"t">>, <<"y">>, <<"y", "e", "s">>}

\* letters that are no token dateutil knows
UnknownLetters == {"b", "B", "n", "N", "x", "X"}

YearMin == 1700

YearMax == 2150

DateDigitLengths == {4, 6, 8, 12, 14, 17}

ValidYMD(y, m, d) == y >= 1 /\ m \in 1..12 /\ d \in 1..28

\* text whose letters spell no word of the parser
UnknownWord(s) ==
    /\ CountIn(s, UnknownLetters) > 0
    /\ CountIn(s, Letters \ UnknownLetters) = 0

\* YYYY-MM-DD
IsoDate(s) ==
    /\ Len(s) = 10
    /\ s[5] = "-" /\ s[8] = "-"
    /\ DigitsOnly(SubSeq(s, 1, 4) \o SubSeq(s, 6, 7) \o SubSeq(s, 9, 10))
    /\ s[1] # "0"
    /\ ValidYMD(StrToNat(SubSeq(s, 1, 4)), StrToNat(SubSeq(s, 6, 7)),
                StrToNat(SubSeq(s, 9, 10)))

\* D jan YYY or D jan YYYY, as the "9 jan 461" of the docstring of Table
DayMonthYear(s) ==
    /\ Len(s) \in 9..10
    /\ s[1] \in Digits \ {"0"}
    /\ SubSeq(s, 2, 6) = <<" ", "j", "a", "n", " ">>
    /\ DigitsOnly(SubSeq(s, 7, Len(s)))
    /\ s[7] # "0"
    /\ StrToNat(SubSeq(s, 7, Len(s))) > 31

\* The inputs on which dateutil.parser.parse is modelled exactly: a value that
\* is no string (TypeError), blank text and text with an unknown word
\* (ValueError), a year YYYY (the month and day of today are filled in), a
\* compact date YYYYMMDD, a day of the current month, and the dates
\* YYYY-MM-DD and D jan YYYY.
DateutilKnown(datum) ==
    \/ datum.t # "str"
    \/ strip(datum.s) = <<>>
    \/ UnknownWord(datum.s)
    \/ IsoDate(datum.s)
    \/ DayMonthYear(datum.s)
    \/ /\ DigitsOnly(datum.s)
       /\ \/ Len(datum.s) = 4 /\ Head(datum.s) # "0"
          \/ /\ Len(datum.s) = 8
             /\ ValidYMD(StrToNat(SubSeq(datum.s, 1, 4)),
                         StrToNat(SubSeq(datum.s, 5, 6)),
                         StrToNat(SubSeq(datum.s, 7, 8)))
          \/ Len(datum.s) <= 2 /\ StrToNat(datum.s) \in 1..28

\* dateutil.parser.parse(datum)
dateutil_parse(datum) ==
    IF datum.t # "str" THEN Raise("TypeError")
    ELSE IF strip(datum.s) = <<>> THEN Raise("ValueError")
    ELSE IF UnknownWord(datum.s) THEN Raise("ValueError")
    ELSE IF IsoDate(datum.s)
         THEN PyDatetime(StrToNat(SubSeq(datum.s, 1, 4)),
                         StrToNat(SubSeq(datum.s, 6, 7)),
                         StrToNat(SubSeq(datum.s, 9, 10)))
    ELSE IF DayMonthYear(datum.s)
         THEN PyDatetime(StrToNat(SubSeq(datum.s, 7, Len(datum.s))), 1,
                         DigitVal(datum.s[1]))
    ELSE IF DigitsOnly(datum.s) /\ Len(datum.s) = 4 /\ Head(datum.s) # "0"
         THEN PyDatetime(StrToNat(datum.s), now.month, now.day)
    ELSE IF DigitsOnly(datum.s) /\ Len(datum.s) = 8
            /\ ValidYMD(StrToNat(SubSeq(datum.s, 1, 4)),
                        StrToNat(SubSeq(datum.s, 5, 6)),
                        StrToNat(SubSeq(datum.s, 7, 8)))
         THEN PyDatetime(StrToNat(SubSeq(datum.s, 1, 4)),
                         StrToNat(SubSeq(datum.s, 5, 6)),
                         StrToNat(SubSeq(datum.s, 7, 8)))
    ELSE IF DigitsOnly(datum.s) /\ Len(datum.s) <= 2
            /\ StrToNat(datum.s) \in 1..28
         THEN PyDatetime(now.year, now.month, StrToNat(datum.s))
    ELSE Raise("ValueError")

\* Every result dateutil.parser.parse can have on datum: outside the inputs
\* modelled exactly the parser may reject the text or read some date of the
\* current month out of it.
DateutilOutcomes(datum) ==
    IF DateutilKnown(datum) THEN {dateutil_parse(datum)}
    ELSE {Raise("ValueError"), PyDatetime(now.year, now.month, 1)}

\* the try block without the test of the year
TryDate_AnyYear(datum, parsed) ==
    IF IsRaise(parsed) THEN parsed
    ELSE IF datum.t # "str" THEN Raise("AttributeError")
    ELSE LET clean_datum ==
                 rstrip(lstrip(lstrip(strip(datum.s), {"-"}), {"0"}), {"."})
         IN
         IF CountIn(clean_datum, SeparatorChars) < 2
         THEN IF ~DigitsOnly(clean_datum)
                 \/ Len(clean_datum) \notin DateDigitLengths
              THEN Raise("Exception")
              ELSE IF parsed.year = now.year /\ parsed.month = now.month
                      /\ parsed.day = now.day
              THEN Raise("Exception")
              ELSE parsed
         ELSE parsed

\* lines 74-93: the body of the first try block, given what the parser did
TryDate(datum, parsed) ==
    IF IsRaise(parsed) THEN parsed
    ELSE IF datum.t # "str" THEN Raise("AttributeError")
    ELSE LET clean_datum ==
                 rstrip(lstrip(lstrip(strip(datum.s), {"-"}), {"0"}), {"."})
         IN
         IF CountIn(clean_datum, SeparatorChars) < 2
         THEN IF ~DigitsOnly(clean_datum)
                 \/ Len(clean_datum) \notin DateDigitLengths
              THEN Raise("Exception")
              ELSE IF parsed.year = now.year /\ parsed.month = now.month
                      /\ parsed.day = now.day
              THEN Raise("Exception")
              ELSE IF ~(YearMin < parsed.year /\ parsed.year < YearMax)
              THEN Raise("Exception")
              ELSE parsed
         ELSE parsed

\* CoerceNumber with the Decimal attempt guarded by "except ValueError"
CoerceNumber_DecimalValueError(s) ==
    LET i == ParseInt(s)
        d == ParseDecimal(s)
        f == ParseFloat(s)
    IN
    IF ~IsRaise(i) THEN i
    ELSE IF ~Catches("ValueError", i.exc) THEN i
    ELSE IF ~IsRaise(d) THEN d
    ELSE IF ~Catches("ValueError", d.exc) THEN d
    ELSE IF ~IsRaise(f) THEN f
    ELSE IF ~Catches("ValueError", f.exc) THEN f
    ELSE PyStr(s)

\* lines 100-112: int, then Decimal, then float, then the text itself
CoerceNumber(s) ==
    LET i == ParseInt(s)
        d == ParseDecimal(s)
        f == ParseFloat(s)
    IN
    IF ~IsRaise(i) THEN i
    ELSE IF ~Catches("ValueError", i.exc) THEN i
    ELSE IF ~IsRaise(d) THEN d
    ELSE IF ~Catches("InvalidOperation", d.exc) THEN d
    ELSE IF ~IsRaise(f) THEN f
    ELSE IF ~Catches("ValueError", f.exc) THEN f
    ELSE PyStr(s)

\* coerce_to_specific(datum), given the result of dateutil.parser.parse
coerce_given(datum, parsed) ==
    IF datum.t = "NoneType" THEN PyNone
    ELSE LET date == TryDate(datum, parsed)
             word == lower(strip(Str(datum)))
         IN
         IF ~IsRaise(date) THEN date
         ELSE IF ~Catches("Exception", date.exc) THEN date
         ELSE IF word \in FalseWords THEN PyBool(FALSE)
         ELSE IF word \in TrueWords THEN PyBool(TRUE)
         ELSE CoerceNumber(Str(datum))

coerce_to_specific(datum) == coerce_given(datum, dateutil_parse(datum))

(***************************************************************************)
(* Numeric comparison of Python numbers                                    *)
(***************************************************************************)
IsNumber(v) == v.t \in {"bool", "int", "Decimal", "float"}

NumNeg(v) == IF v.t = "bool" THEN FALSE ELSE v.neg /\ ~IsZero(v.digs)

NumDigs(v) == IF v.t = "bool" THEN (IF v.b THEN <<"1">> ELSE <<"0">>) ELSE v.digs

NumExp(v) == IF v.t \in {"bool", "int"} THEN 0 ELSE v.exp

\* the digits of |v| in units of 10^e, for e <= NumExp(v)
Scaled(v, e) == Canonical(NumDigs(v) \o Repeat("0", NumExp(v) - e))

\* a < b for two canonical digit strings
DigLess(a, b) ==
    \/ Len(a) < Len(b)
    \/ /\ Len(a) = Len(b)
       /\ \E i \in 1..Len(a) :
             /\ \A j \in 1..(i - 1) : a[j] = b[j]
             /\ DigitVal(a[i]) < DigitVal(b[i])

MinExp(a, b) == IF NumExp(a) <= NumExp(b) THEN NumExp(a) ELSE NumExp(b)

NumEq(a, b) ==
    /\ NumNeg(a) = NumNeg(b)
    /\ Scaled(a, MinExp(a, b)) = Scaled(b, MinExp(a, b))

NumLess(a, b) ==
    LET x == Scaled(a, MinExp(a, b))
        y == Scaled(b, MinExp(a, b))
    IN
    IF NumNeg(a) /\ ~NumNeg(b) THEN TRUE
    ELSE IF ~NumNeg(a) /\ NumNeg(b) THEN FALSE
    ELSE IF NumNeg(a) THEN DigLess(y, x)
    ELSE DigLess(x, y)

\* a == b as Python compares (and hashes) values in a set
PyEq(a, b) ==
    IF IsNumber(a) /\ IsNumber(b) THEN NumEq(a, b) ELSE a = b

\* v in s, for a Python set s
InPySet(v, s) == \E w \in s : PyEq(v, w)

(***************************************************************************)
(* typehelpers.py: the type widener                                        *)
(***************************************************************************)
\* precision_and_scale(x) for a Decimal x
precision_and_scale(x) ==
    LET precision == Len(x.digs)
        scale == -1 * x.exp
    IN
    IF scale < 0 THEN <<precision - scale, 0>> ELSE <<precision, scale>>

_places_b4_and_after_decimal(d) == <<Len(d.digs) + d.exp, Max(-1 * d.exp, 0)>>

worst_decimal(d1, d2) ==
    LET p1 == _places_b4_and_after_decimal(d1)
        p2 == _places_b4_and_after_decimal(d2)
    IN ParseDecimal(Repeat("9", Max(p1[1], p2[1])) \o <<".">>
                    \o Repeat("9", Max(p1[2], p2[2])))

\* new_type(text): the constructor of new_worst's type applied to padded text
Retype(ty, text) ==
    CASE ty = "int" -> ParseInt(text)
      [] ty = "Decimal" -> ParseDecimal(text)
      [] ty = "float" -> ParseFloat(text)
      [] ty = "str" -> PyStr(text)
      [] OTHER -> Raise("TypeError")

set_worst(old_worst, new_worst) ==
    IF new_worst.t = "bool" THEN new_worst
    ELSE
    LET negative == \/ HasNeg(old_worst) /\ IsNegative(old_worst)
                    \/ HasNeg(new_worst) /\ IsNegative(new_worst)
        \* try: old = abs(old); new = abs(new)  except TypeError: pass
        old1 == IF IsRaise(Abs(old_worst)) THEN old_worst ELSE Abs(old_worst)
        new1 == IF IsRaise(Abs(old_worst)) \/ IsRaise(Abs(new_worst))
                THEN new_worst ELSE Abs(new_worst)
        new_len == Len(Str(new1))
        old_len == Len(Str(old1))
        new2 == IF new_len < old_len
                THEN Retype(new1.t, ljust(Str(new1), old_len, "0"))
                ELSE new1
    IN
    IF IsRaise(new2) THEN new2
    ELSE IF negative /\ IsNumber(new2) THEN NegAbs(new2)
    ELSE new2

preference == <<"datetime", "bool", "int", "Decimal", "float", "str">>

\* preference.index(type(x))
PrefIndex(v) == (CHOOSE i \in 1..Len(preference) : preference[i] = v.t) - 1

\* max(a, b) of two floats
PyMax(a, b) == IF NumLess(a, b) THEN b ELSE a

\* one pass of the loop of best_representative over (d1, d2)
WidenStep(st, coerced) ==
    LET pref == PrefIndex(coerced) IN
    IF IsRaise(st.worst) THEN st
    ELSE IF pref > st.worst_pref
    THEN [worst_pref |-> pref, worst |-> set_worst(st.worst, coerced)]
    ELSE IF pref = st.worst_pref
    THEN IF coerced.t = "Decimal"
         THEN [st EXCEPT !.worst =
                  set_worst(st.worst, worst_decimal(coerced, st.worst))]
         ELSE IF coerced.t = "float"
         THEN [st EXCEPT !.worst = set_worst(st.worst, PyMax(coerced, st.worst))]
         ELSE IF Len(Str(coerced)) > Len(Str(st.worst))
         THEN [st EXCEPT !.worst = set_worst(st.worst, coerced)]
         ELSE st
    ELSE st

best_representative(d1, d2) ==
    IF d2.t = "str" /\ strip(d2.s) = <<>> THEN d1
    ELSE IF d1.t = "NoneType" THEN d2
    ELSE IF d2.t = "NoneType" THEN d1
    ELSE WidenStep(WidenStep([worst_pref |-> 0, worst |-> PyStr(<<>>)], d1),
                   d2).worst

\* one pass of the loop of best_coercable
CoercableStep(st, coerced) ==
    LET pref == PrefIndex(coerced) IN
    IF pref > st.worst_pref THEN [worst_pref |-> pref, worst |-> coerced]
    ELSE IF pref = st.worst_pref
    THEN IF coerced.t = "Decimal"
         THEN [st EXCEPT !.worst = worst_decimal(coerced, st.worst)]
         ELSE IF coerced.t = "float"
         THEN [st EXCEPT !.worst = PyMax(coerced, st.worst)]
         ELSE IF Len(Str(coerced)) > Len(Str(st.worst))
         THEN [st EXCEPT !.worst = coerced]
         ELSE st
    ELSE st

RECURSIVE CoercableFold(_, _)
CoercableFold(st, values) ==
    IF values = <<>> THEN st
    ELSE Let(coerce_to_specific(Head(values)), LAMBDA coerced :
         Let(CoercableStep(st, coerced), LAMBDA after :
         CoercableFold(after, Tail(values))))

best_coercable(values) ==
    CoercableFold([worst_pref |-> 0, worst |-> PyStr(<<>>)], values).worst

(***************************************************************************)
(* ddlgenerator.py: the column profiler                                    *)
(***************************************************************************)
\* is_scalar(x): text, or anything that cannot be iterated
is_scalar(x) == x.t = "str" \/ x.t \notin {"list", "tuple", "dict"}

IntMax == 2147483647

CushionStep == 1000000000

SaType(name) == [name |-> name, precision |-> 0, scale |-> 0, length |-> 0]

\* types2sa[type(sample_datum)]
types2sa(ty) ==
    CASE ty = "datetime" -> SaType("DateTime")
      [] ty = "int" -> SaType("Integer")
      [] ty = "float" -> SaType("Numeric")
      [] ty = "bool" -> SaType("Boolean")
      [] ty = "NoneType" -> SaType("Text")

\* _fill_metadata_from_sample(col) of a Table with the options opts
_fill_metadata_from_sample(col, opts) ==
    LET sample == col.sample_datum
        cushion == opts.data_size_cushion
        ps == precision_and_scale(sample)
        str_len == Max(Len(sample.s), col.str_length)
        satype ==
            IF sample.t = "Decimal"
            THEN [SaType("DECIMAL") EXCEPT !.precision = ps[1] + cushion * 2,
                                           !.scale = ps[2] + cushion]
            ELSE IF sample.t = "str"
            THEN IF opts.varying_length_text THEN SaType("Text")
                 ELSE [SaType("Unicode") EXCEPT !.length = str_len + cushion * 2]
            ELSE IF /\ sample.t = "int"
                    /\ \/ NumLess(PyInt(IntMax - cushion * CushionStep), sample)
                       \/ NumLess(sample, PyInt(-IntMax + cushion * CushionStep))
            THEN SaType("BigInteger")
            ELSE types2sa(sample.t)
    IN [col EXCEPT !.pytype = sample.t, !.satype = satype]

\* lines 509-512: is_nullable of a column at the first row that has it
FirstNullable_AnyRow(rowcount, v) ==
    ~(v.t # "NoneType" /\ strip(Str(v)) # <<>>)

FirstNullable(rowcount, v) ==
    ~(rowcount = 1 /\ v.t # "NoneType" /\ strip(Str(v)) # <<>>)

\* lines 505-526: the field k of one row, folded into the columns
ProfileField(cols, k, v_raw, rowcount) ==
    LET v == coerce_to_specific(v_raw) IN
    IF k \notin DOMAIN cols
    THEN [sample_datum |-> v,
          str_length |-> Len(Str(v_raw)),
          is_nullable |-> FirstNullable(rowcount, v),
          is_unique |-> TRUE,
          seen |-> {v},
          pytype |-> "",
          satype |-> SaType("")]
    ELSE LET col == cols[k] IN
         [col EXCEPT
            !.str_length = Max(col.str_length, Len(Str(v_raw))),
            !.sample_datum = best_representative(col.sample_datum, v),
            !.is_nullable = IF v.t = "NoneType" \/ strip(Str(v)) = <<>>
                            THEN TRUE ELSE col.is_nullable,
            !.is_unique = col.is_unique /\ ~InPySet(v, col.seen),
            !.seen = IF col.is_unique /\ ~InPySet(v, col.seen)
                     THEN col.seen \cup {v} ELSE {}]

\* lines 490-526: one pass of the loop over the rows
ProfileRow(cols, row, rowcount) ==
    [k \in DOMAIN cols \cup DOMAIN row |->
        IF k \notin DOMAIN row THEN [cols[k] EXCEPT !.is_nullable = TRUE]
        ELSE ProfileField(cols, k, row[k], rowcount)]

\* the loop body without the comment on a value that is not scalar
CommentRow_Silent(cmts, row) == cmts

\* lines 498-504: the diagnostic comments of one row
CommentRow(cmts, row) ==
    [k \in DOMAIN cmts \cup {f \in DOMAIN row : ~is_scalar(row[f])} |->
        IF k \in DOMAIN row /\ ~is_scalar(row[k]) THEN row[k] ELSE cmts[k]]

\* lines 527-530: the metadata of every column, once the rows are read
FinishColumns(cols, opts) ==
    [k \in DOMAIN cols |->
        LET col == _fill_metadata_from_sample(cols[k], opts) IN
        [col EXCEPT !.is_unique = (col.is_unique /\ col.seen # {}),
                    !.seen = {}]]

(***************************************************************************)
(* reshape.py: dictionaries, key names, the key generator                  *)
(***************************************************************************)
\* A dict (OrderedDict) is its sequence of items [k |-> key, v |-> value] in
\* insertion order; a key is text.
PyDict(items) == [t |-> "dict", items |-> items]

PyList(items) == [t |-> "list", items |-> items]

DKeys(d) == [i \in 1..Len(d) |-> d[i].k]

DHas(d, k) == \E i \in 1..Len(d) : d[i].k = k

DGet(d, k) == d[CHOOSE i \in 1..Len(d) : d[i].k = k].v

DSet(d, k, v) ==
    IF DHas(d, k)
    THEN [i \in 1..Len(d) |-> IF d[i].k = k THEN [k |-> k, v |-> v] ELSE d[i]]
    ELSE Append(d, [k |-> k, v |-> v])

DKeep(e, k) == e.k # k

DPop(d, k) == SelectSeq(d, LAMBDA e : DKeep(e, k))

\* hasattr(x, 'items')
HasItems(x) == x.t = "dict"

IsListOrTuple(x) == x.t \in {"list", "tuple"}

\* bool(x)
Truthy(x) ==
    CASE x.t = "NoneType" -> FALSE
      [] x.t = "bool" -> x.b
      [] x.t \in {"int", "Decimal", "float"} -> ~IsZero(x.digs)
      [] x.t = "str" -> x.s # <<>>
      [] x.t \in {"dict", "list", "tuple"} -> x.items # <<>>
      [] OTHER -> TRUE

\* the first exception among the values of a sequence, if any
HasRaise(vs) == \E i \in 1..Len(vs) : IsRaise(vs[i])

FirstRaise(vs) == vs[CHOOSE i \in 1..Len(vs) :
                        IsRaise(vs[i]) /\ \A j \in 1..(i - 1) : ~IsRaise(vs[j])]

\* ddlgenerator.reserved.sql_reserved_words
sql_reserved_words ==
    { <<"A", "S">>, <<"B", "Y">>, <<"I", "N">>, <<"I", "S">>, <<"N", "O">>,
      <<"O", "N">>, <<"O", "R">>, <<"T", "O">> }

\* re.compile(r'[^a-zA-Z0-9_$#]')
LegalInColumnName == Letters \cup Digits \cup {"_", "$", "#"}

clean_key_name(key) ==
    LET stripped == strip(key)
        subbed == [i \in 1..Len(stripped) |->
                      IF stripped[i] \in LegalInColumnName THEN stripped[i]
                      ELSE "_"]
        renamed == IF subbed # <<>> /\ subbed[1] \in Digits
                  THEN <<"_">> \o subbed ELSE subbed
    IN
    IF subbed = <<>> THEN Raise("IndexError")
    ELSE IF upper(renamed) \in sql_reserved_words
    THEN PyStr(lower(<<"_">> \o key))
    ELSE PyStr(lower(renamed))

\* walk_and_clean(data): the keys of every dict, at any depth, are cleaned
RECURSIVE walk_and_clean(_)
walk_and_clean(x) ==
    IF HasItems(x)
    THEN LET vals == [i \in 1..Len(x.items) |-> walk_and_clean(x.items[i].v)]
             keys == [i \in 1..Len(x.items) |-> clean_key_name(x.items[i].k)]
         IN
         IF HasRaise(vals) THEN FirstRaise(vals)
         ELSE IF HasRaise(keys) THEN FirstRaise(keys)
         ELSE IF \E i, j \in 1..Len(keys) : i # j /\ keys[i] = keys[j]
         THEN Raise("KeyError")
         ELSE PyDict([i \in 1..Len(keys) |-> [k |-> keys[i].s, v |-> vals[i]]])
    ELSE IF IsListOrTuple(x)
    THEN LET vals == [i \in 1..Len(x.items) |-> walk_and_clean(x.items[i])]
         IN IF HasRaise(vals) THEN FirstRaise(vals) ELSE PyList(vals)
    ELSE x

\* md5().hexdigest()
Md5OfNothing ==
    <<"d", "4", "1", "d", "8", "c", "d", "9", "8", "f", "0", "0", "b", "2",
      "0", "4", "e", "9", "8", "0", "0", "9", "9", "8", "e", "c", "f", "8",
      "4", "2", "7", "e">>

\* UniqueKey(key_name, key_type, max)
UniqueKey(key_name, key_type, max) ==
    IF key_type # "int" /\ key_type # "str" THEN Raise("NotImplementedError")
    ELSE [t |-> "UniqueKey", name |-> key_name, type |-> key_type, max |-> max]

\* UniqueKey.next(): the key after the call, and the value returned
UniqueKeyNext(pk) ==
    IF pk.type = "int"
    THEN [pk |-> [pk EXCEPT !.max = pk.max + 1], value |-> PyInt(pk.max + 1)]
    ELSE [pk |-> pk, value |-> PyStr(Md5OfNothing)]

\* all_values_for(data, field_name)
RECURSIVE all_values_for(_, _)
all_values_for(rows, field_name) ==
    IF rows = <<>> THEN <<>>
    ELSE (IF DHas(Head(rows).items, field_name)
          THEN <<DGet(Head(rows).items, field_name)>> ELSE <<>>)
         \o all_values_for(Tail(rows), field_name)

\* len(set(values))
NumUnique(values) ==
    Cardinality({i \in 1..Len(values) :
                    \A j \in 1..(i - 1) : ~PyEq(values[j], values[i])})

\* max([0, ] + values) for integers; TypeError when a value is no number
RECURSIVE MaxValue(_, _)
MaxValue(m, values) ==
    IF values = <<>> THEN m
    ELSE IF ~IsNumber(Head(values)) THEN Raise("TypeError")
    ELSE MaxValue(IF NumLess(m, Head(values)) THEN Head(values) ELSE m,
                  Tail(values))

(***************************************************************************)
(* reshape.py: ParentTable                                                 *)
(***************************************************************************)
\* A ParentTable is [rows, name, pk_name, pk]; pk is PyNone or a UniqueKey.

\* ParentTable.is_in_all_rows(value)
is_in_all_rows(rows, value) ==
    \A i \in 1..Len(rows) :
        DHas(rows[i].items, value) /\ Truthy(DGet(rows[i].items, value))

\* ParentTable.suitability_as_key(key_name): <<result, key_type>>, result
\* one of "absent", "False", "True", "partial"
suitability_as_key(rows, key_name) ==
    LET pk_values == all_values_for(rows, key_name) IN
    IF pk_values = <<>> THEN <<"absent", "int">>
    ELSE IF \E i \in 1..Len(pk_values) : pk_values[i].t = "NoneType"
    THEN <<Raise("ValueError"), "">>
    ELSE IF \E i \in 1..Len(pk_values) : pk_values[i].t \in {"dict", "list"}
    THEN <<Raise("TypeError"), "">>
    ELSE IF NumUnique(pk_values) < Len(pk_values) THEN <<"False", "NoneType">>
    ELSE IF NumUnique(pk_values) = Len(rows)
    THEN <<"True", best_coercable(pk_values).t>>
    ELSE <<"partial", best_coercable(pk_values).t>>

\* use_this_pk with a generator that is not seeded from the existing keys
use_this_pk_Unseeded(rows, pk_name, key_type) ==
    UniqueKey(pk_name, key_type, 0)

\* ParentTable.use_this_pk(pk_name, key_type): the UniqueKey, or an exception
use_this_pk(rows, pk_name, key_type) ==
    IF key_type = "int"
    THEN LET m == MaxValue(PyInt(0), all_values_for(rows, pk_name)) IN
         IF IsRaise(m) THEN m
         ELSE UniqueKey(pk_name, key_type, StrToNat(NumDigs(m)))
    ELSE UniqueKey(pk_name, key_type, 0)

\* lines 258-260: the rows without the key get the next generated key
RECURSIVE FillKeys(_, _, _)
FillKeys(rows, pk, done) ==
    IF rows = <<>> THEN [rows |-> done, pk |-> pk]
    ELSE IF DHas(Head(rows).items, pk.name)
    THEN FillKeys(Tail(rows), pk, Append(done, Head(rows)))
    ELSE LET n == UniqueKeyNext(pk) IN
         FillKeys(Tail(rows), n.pk,
                  Append(done, PyDict(DSet(Head(rows).items, pk.name, n.value))))

\* ParentTable.assign_pk(): the table after the call, or an exception
assign_pk(pt) ==
    LET pk_name == IF pt.pk_name.t = "NoneType" \/ pt.pk_name.s = <<>>
                   THEN PyStr(pt.name \o <<"_", "i", "d">>)
                   ELSE pt.pk_name
    IN
    Let(suitability_as_key(pt.rows, pk_name.s), LAMBDA suit :
        IF suit[2] = "" THEN suit[1]
        ELSE IF suit[1] = "False" THEN Raise("Exception")
        ELSE
    Let(use_this_pk(pt.rows, pk_name.s, suit[2]), LAMBDA pk :
        IF IsRaise(pk) THEN pk
        ELSE IF suit[1] \in {"absent", "partial"}
        THEN Let(FillKeys(pt.rows, pk, <<>>), LAMBDA filled :
                 [pt EXCEPT !.pk_name = pk_name, !.pk = filled.pk,
                            !.rows = filled.rows])
        ELSE [pt EXCEPT !.pk_name = pk_name, !.pk = pk]))

\* line 215: does the constructor assign the key?
AssignsAtInit_Always(rows, pk_name, force_pk) == TRUE

AssignsAtInit(rows, pk_name, force_pk) ==
    \/ force_pk
    \/ /\ pk_name.t # "NoneType"
       /\ pk_name.s # <<>>
       /\ is_in_all_rows(rows, pk_name.s)

\* ParentTable(data, singular_name, pk_name, force_pk)
ParentTable(rows, singular_name, pk_name, force_pk) ==
    LET pt == [t |-> "ParentTable", rows |-> rows, name |-> singular_name,
               pk_name |-> pk_name, pk |-> PyNone]
    IN IF AssignsAtInit(rows, pk_name, force_pk) THEN assign_pk(pt) ELSE pt

(***************************************************************************)
(* reshape.py: unnesting                                                   *)
(***************************************************************************)
IdStubs == << <<"i", "d">>, <<"n", "u", "m">>, <<"n", "o">>,
              <<"n", "u", "m", "b", "e", "r">> >>

\* t % stub for the n-th pair of the loops of lines 80-81
IdCandidate(n, table_name) ==
    LET stub == IdStubs[((n - 1) \div 3) + 1]
        t == ((n - 1) % 3) + 1
    IN CASE t = 1 -> table_name \o <<"_">> \o stub
         [] t = 2 -> stub
         [] OTHER -> <<"_">> \o stub

\* _id_fieldname(fieldnames, table_name): PyNone when no name is id-like
_id_fieldname(fieldnames, table_name) ==
    LET hits == {n \in 1..(3 * Len(IdStubs)) :
                    IdCandidate(n, table_name) \in fieldnames}
    IN IF hits = {} THEN PyNone
       ELSE PyStr(IdCandidate(MinOf(hits), table_name))

\* '%s_%s' % (key, child_key.strip('_'))
NewFieldName(key, child_key) ==
    key \o <<"_">> \o rstrip(lstrip(child_key, {"_"}), {"_"})

\* lines 161-163: every field of val goes to the parent under its new name
RECURSIVE PushUp(_, _, _)
PushUp(parent, key, val) ==
    IF val = <<>> THEN parent
    ELSE PushUp(DSet(parent, NewFieldName(key, Head(val).k), Head(val).v),
                key, Tail(val))

\* the overlap is logged and the parent returned as it is
unnest_child_dict_Logged(parent, key, parent_name) ==
    LET val0 == DGet(parent.items, key).items
        id == _id_fieldname(Range(DKeys(val0)), parent_name)
        val == IF id.t = "str" /\ Len(val0) <= 2 THEN DPop(val0, id.s)
               ELSE val0
        new_field_names == {NewFieldName(key, val[i].k) : i \in 1..Len(val)}
        id_chars == IF id.t = "str" THEN {<<id.s[i]>> : i \in 1..Len(id.s)}
                    ELSE {}
        overlap == (new_field_names \cap Range(DKeys(parent.items))) \ id_chars
    IN
    IF Len(val) = 0 THEN PyDict(DPop(parent.items, key))
    ELSE IF Len(val) = 1 THEN PyDict(DSet(parent.items, key, val[1].v))
    ELSE IF overlap # {} THEN parent
    ELSE PyDict(DPop(PushUp(parent.items, key, val), key))

\* unnest_child_dict(parent, key, parent_name): the parent dict after the
\* call, or the exception raised
unnest_child_dict(parent, key, parent_name) ==
    LET val0 == DGet(parent.items, key).items
        id == _id_fieldname(Range(DKeys(val0)), parent_name)
        val == IF id.t = "str" /\ Len(val0) <= 2 THEN DPop(val0, id.s)
               ELSE val0
        new_field_names == {NewFieldName(key, val[i].k) : i \in 1..Len(val)}
        id_chars == IF id.t = "str" THEN {<<id.s[i]>> : i \in 1..Len(id.s)}
                    ELSE {}
        overlap == (new_field_names \cap Range(DKeys(parent.items))) \ id_chars
    IN
    IF Len(val) = 0 THEN PyDict(DPop(parent.items, key))
    ELSE IF Len(val) = 1 THEN PyDict(DSet(parent.items, key, val[1].v))
    ELSE IF overlap # {} THEN Raise("TypeError")
    ELSE PyDict(DPop(PushUp(parent.items, key, val), key))

\* line 293: listed items are forced to be dicts
ForceDicts(key, val) ==
    PyList([i \in 1..Len(val.items) |->
               IF HasItems(val.items[i]) THEN val.items[i]
               ELSE PyDict(<<[k |-> key, v |-> val.items[i]]>>)])

\* lines 288-293: the loop over list(row.items())
RECURSIVE UnnestFields(_, _, _)
UnnestFields(row, snapshot, parent_name) ==
    IF IsRaise(row) \/ snapshot = <<>> THEN row
    ELSE LET key == Head(snapshot).k
             val == Head(snapshot).v
         IN UnnestFields(
                IF HasItems(val) THEN unnest_child_dict(row, key, parent_name)
                ELSE IF IsListOrTuple(val)
                THEN PyDict(DSet(row.items, key, ForceDicts(key, val)))
                ELSE row,
                Tail(snapshot), parent_name)

\* field_names_used_by_children[key] assigned, not updated: the names of
\* an earlier row are forgotten
RECURSIVE NamesUsed_Overwritten(_, _)
NamesUsed_Overwritten(items, used) ==
    IF IsRaise(used) \/ items = <<>> THEN used
    ELSE LET key == Head(items).k
             val == Head(items).v
             before == IF DHas(used.items, key) THEN DGet(used.items, key)
                       ELSE {}
             names == UNION {Range(DKeys(val.items[i].items)) :
                                i \in 1..Len(val.items)}
         IN NamesUsed_Overwritten(Tail(items),
                IF ~IsListOrTuple(val) \/ val.items = <<>> THEN used
                ELSE IF \E i \in 1..Len(val.items) : ~HasItems(val.items[i])
                THEN Raise("AttributeError")
                ELSE PyDict(DSet(used.items, key, names)))

\* lines 296-299: field_names_used_by_children after one row
RECURSIVE NamesUsed(_, _)
NamesUsed(items, used) ==
    IF IsRaise(used) \/ items = <<>> THEN used
    ELSE LET key == Head(items).k
             val == Head(items).v
             before == IF DHas(used.items, key) THEN DGet(used.items, key)
                       ELSE {}
             names == UNION {Range(DKeys(val.items[i].items)) :
                                i \in 1..Len(val.items)}
         IN NamesUsed(Tail(items),
                IF ~IsListOrTuple(val) \/ val.items = <<>> THEN used
                ELSE IF \E i \in 1..Len(val.items) : ~HasItems(val.items[i])
                THEN Raise("AttributeError")
                ELSE PyDict(DSet(used.items, key, before \cup names)))

\* lines 286-299: the loop over the rows of the parent
RECURSIVE UnnestRows(_, _, _, _)
UnnestRows(rows, parent_name, unnested, used) ==
    IF rows = <<>> THEN [t |-> "ok", rows |-> unnested, used |-> used]
    ELSE IF ~HasItems(Head(rows)) THEN Raise("TypeError")
    ELSE LET row == UnnestFields(Head(rows), Head(rows).items, parent_name)
             u == NamesUsed(row.items, used)
         IN IF IsRaise(row) THEN row
            ELSE IF IsRaise(u) THEN u
            ELSE UnnestRows(Tail(rows), parent_name, Append(unnested, row), u)

\* the children leave the parent without the key of their row
StampChildren_Unstamped(val, fk_name, pk_value) == val.items

\* child[fk_name] = row[parent.pk.name] for every child of one list
StampChildren(val, fk_name, pk_value) ==
    [i \in 1..Len(val.items) |->
        PyDict(DSet(val.items[i].items, fk_name, pk_value))]

\* the children of one field, those of a row replacing those of the rows
\* before it
RECURSIVE MoveChildren_Overwriting(_, _, _, _, _, _)
MoveChildren_Overwriting(rows, child_name, fk_name, pk_name, kept, kids) ==
    IF rows = <<>> THEN [t |-> "ok", rows |-> kept, kids |-> kids]
    ELSE LET row == Head(rows).items
             val == DGet(row, child_name)
             popped == PyDict(DPop(row, child_name))
         IN
         IF ~DHas(row, child_name)
         THEN MoveChildren_Overwriting(Tail(rows), child_name, fk_name, pk_name,
                                       Append(kept, Head(rows)), kids)
         ELSE IF ~IsListOrTuple(val) THEN Raise("TypeError")
         ELSE IF val.items # <<>> /\ ~DHas(row, pk_name) THEN Raise("KeyError")
         ELSE IF \E i \in 1..Len(val.items) : ~HasItems(val.items[i])
         THEN Raise("TypeError")
         ELSE MoveChildren_Overwriting(
                  Tail(rows), child_name, fk_name, pk_name,
                  Append(kept, popped),
                  StampChildren(val, fk_name, DGet(row, pk_name)))

\* lines 310-315: the children of one field leave the parent rows
RECURSIVE MoveChildren(_, _, _, _, _, _)
MoveChildren(rows, child_name, fk_name, pk_name, kept, kids) ==
    IF rows = <<>> THEN [t |-> "ok", rows |-> kept, kids |-> kids]
    ELSE LET row == Head(rows).items
             val == DGet(row, child_name)
             popped == PyDict(DPop(row, child_name))
         IN
         IF ~DHas(row, child_name)
         THEN MoveChildren(Tail(rows), child_name, fk_name, pk_name,
                           Append(kept, Head(rows)), kids)
         ELSE IF ~IsListOrTuple(val)
         THEN IF val.t \in {"str", "dict"} /\ ~Truthy(val)
              THEN MoveChildren(Tail(rows), child_name, fk_name, pk_name,
                                Append(kept, popped), kids)
              ELSE Raise("TypeError")
         ELSE IF val.items # <<>> /\ ~DHas(row, pk_name) THEN Raise("KeyError")
         ELSE IF \E i \in 1..Len(val.items) : ~HasItems(val.items[i])
         THEN Raise("TypeError")
         ELSE MoveChildren(Tail(rows), child_name, fk_name, pk_name,
                           Append(kept, popped),
                           kids \o (IF val.items = <<>> THEN <<>>
                                    ELSE StampChildren(val, fk_name,
                                                       DGet(row, pk_name))))

\* lines 300-315: the loop over field_names_used_by_children
RECURSIVE ExtractChildren(_, _, _)
ExtractChildren(st, used, possible_fk_names) ==
    IF IsRaise(st) \/ used = <<>> THEN st
    ELSE LET child_name == Head(used).k
             names_in_use == Head(used).v
             free == {i \in 1..Len(possible_fk_names) :
                         possible_fk_names[i] \notin names_in_use}
             fk_name == possible_fk_names[MinOf(free)]
         IN
         Let(IF st.parent.pk.t = "NoneType" THEN assign_pk(st.parent)
             ELSE st.parent, LAMBDA parent :
             IF IsRaise(parent) THEN parent
             ELSE IF free = {} THEN Raise("Exception")
             ELSE
         Let(MoveChildren(parent.rows, child_name, fk_name, parent.pk.name,
                          <<>>, <<>>), LAMBDA moved :
             IF IsRaise(moved) THEN moved
             ELSE ExtractChildren(
                      [t |-> "ok",
                       parent |-> [parent EXCEPT !.rows = moved.rows],
                       children |-> DSet(st.children, child_name, moved.kids),
                       child_fk_names |->
                           DSet(st.child_fk_names, child_name, fk_name)],
                      Tail(used), possible_fk_names)))

\* unnest_children(data, parent_name, pk_name, force_pk): the tuple
\* returned, or the exception raised
unnest_children(rows, parent_name, pk_name, force_pk) ==
    LET base == << parent_name \o <<"_", "i", "d">>,
                   <<"_">> \o parent_name \o <<"_", "i", "d">>,
                   <<"p", "a", "r", "e", "n", "t", "_", "i", "d">> >>
        possible_fk_names ==
            IF Truthy(pk_name)
            THEN << parent_name \o <<"_">>
                    \o rstrip(lstrip(pk_name.s, {"_"}), {"_"}) >> \o base
            ELSE base
    IN
    Let(ParentTable(rows, parent_name, pk_name, force_pk), LAMBDA parent :
        IF IsRaise(parent) THEN parent
        ELSE
    Let(UnnestRows(parent.rows, parent_name, <<>>, PyDict(<<>>)), LAMBDA walked :
        IF IsRaise(walked) THEN walked
        ELSE
    Let(ExtractChildren(
            [t |-> "ok", parent |-> [parent EXCEPT !.rows = walked.rows],
             children |-> <<>>, child_fk_names |-> <<>>],
            walked.used.items, possible_fk_names), LAMBDA final :
        IF IsRaise(final) THEN final
        ELSE [t |-> "unnested",
              data |-> final.parent.rows,
              pk_name |-> IF final.parent.pk.t = "NoneType" THEN PyNone
                          ELSE PyStr(final.parent.pk.name),
              children |-> final.children,
              child_fk_names |-> final.child_fk_names])))

\* Table.__init__, lines 165-170: the rows are cleaned, then reshaped
reshape(rows, table_name, pk_name, force_pk) ==
    Let(walk_and_clean(PyList(rows)), LAMBDA cleaned :
        IF IsRaise(cleaned) THEN cleaned
        ELSE unnest_children(cleaned.items, lower(table_name), pk_name, force_pk))

(***************************************************************************)
(* ddlgenerator.py: Table, its columns, its children and its SQL           *)
(***************************************************************************)
\* _determine_types, lines 489-497: the keys of self.columns, in the order
\* the rows bring them
RECURSIVE ColumnNames(_, _)
ColumnNames(rows, seen) ==
    IF rows = <<>> THEN seen
    ELSE ColumnNames(Tail(rows),
             seen \o SelectSeq(DKeys(Head(rows).items),
                               LAMBDA k : \A i \in 1..Len(seen) : seen[i] # k))

\* '%s.%s' % (_parent_table.table_name, _parent_table.pk_name)
ForeignKey(_parent_table) ==
    IF _parent_table = PyNone THEN PyNone
    ELSE [t |-> "ForeignKey",
          table |-> _parent_table.table_name,
          column |-> IF _parent_table.pk_name = PyNone
                     THEN <<"N", "o", "n", "e">>
                     ELSE _parent_table.pk_name.s]

\* the characters of a column name by code point
CodeOrder ==
    <<"#", "$">> \o DigitChars \o UpperLetters \o <<"_">> \o LowerLetters

Ord(c) == CHOOSE i \in 1..Len(CodeOrder) : CodeOrder[i] = c

\* a < b for two str
RECURSIVE StrLess(_, _)
StrLess(a, b) ==
    IF b = <<>> THEN FALSE
    ELSE IF a = <<>> THEN TRUE
    ELSE IF Head(a) # Head(b) THEN Ord(Head(a)) < Ord(Head(b))
    ELSE StrLess(Tail(a), Tail(b))

\* sorted(names), the names distinct
RECURSIVE sorted(_)
sorted(names) ==
    IF names = <<>> THEN <<>>
    ELSE LET least == CHOOSE n \in Range(names) :
                          \A m \in Range(names) : m = n \/ StrLess(n, m)
         IN <<least>> \o sorted(SelectSeq(names, LAMBDA n : n # least))

\* lines 193-199: the requested key first if it is a column, then the
\* other columns sorted
Reordered(names, pk_name) ==
    IF Truthy(pk_name) /\ pk_name.s \in Range(names)
    THEN <<pk_name.s>> \o sorted(SelectSeq(names, LAMBDA n : n # pk_name.s))
    ELSE sorted(names)

\* lines 207-217: the columns of sa.Table
TableColumns(names, pk_name, _parent_table, _fk_field_name) ==
    [i \in 1..Len(names) |->
        [name |-> names[i],
         fk |-> IF _parent_table # PyNone /\ _fk_field_name = names[i]
                THEN ForeignKey(_parent_table) ELSE PyNone,
         primary_key |-> (PyStr(names[i]) = pk_name)]]

\* Table(data, table_name, pk_name, force_pk, _parent_table, _fk_field_name,
\* reorder)
\* and, lines 219-229, the tables of its children
RECURSIVE Table(_, _, _, _, _, _, _)
RECURSIVE ChildTables(_, _, _, _, _, _, _)
ChildTables(children, child_fk_names, pk_name, force_pk, self, reorder, built) ==
    IF children = <<>> THEN PyList(built)
    ELSE
    Let(Table(Head(children).v, Head(children).k, pk_name, force_pk, self,
              DGet(child_fk_names, Head(children).k), reorder), LAMBDA child :
        IF IsRaise(child) THEN child
        ELSE ChildTables(Tail(children), child_fk_names, pk_name, force_pk,
                         self, reorder, Append(built, child)))

Table(rows, table_name, pk_name, force_pk, _parent_table, _fk_field_name, reorder) ==
    Let(clean_key_name(table_name), LAMBDA name :
        IF IsRaise(name) THEN name
        ELSE
    Let(reshape(rows, name.s, pk_name, force_pk), LAMBDA shaped :
        IF IsRaise(shaped) THEN shaped
        ELSE
    Let(ChildTables(shaped.children, shaped.child_fk_names, pk_name, force_pk,
                    [table_name |-> lower(name.s), pk_name |-> shaped.pk_name],
                    reorder, <<>>), LAMBDA kids :
        IF IsRaise(kids) THEN kids
        ELSE [t |-> "Table",
              table_name |-> lower(name.s),
              pk_name |-> shaped.pk_name,
              data |-> shaped.data,
              columns |-> TableColumns(
                  IF reorder
                  THEN Reordered(ColumnNames(shaped.data, <<>>), pk_name)
                  ELSE ColumnNames(shaped.data, <<>>),
                  shaped.pk_name, _parent_table, _fk_field_name),
              fk_field_name |-> _fk_field_name,
              children |-> kids.items])))

\* the engines of lines 76-80
mock_engines ==
    { <<"p", "o", "s", "t", "g", "r", "e", "s", "q", "l">>,
      <<"s", "q", "l", "i", "t", "e">>, <<"m", "y", "s", "q", "l">>,
      <<"o", "r", "a", "c", "l", "e">>, <<"m", "s", "s", "q", "l">> }

\* Table._dialect(dialect), no default dialect given
_dialect(dialect) ==
    IF ~Truthy(dialect) THEN Raise("KeyError")
    ELSE IF dialect.s \notin mock_engines THEN Raise("NotImplementedError")
    ELSE dialect

\* the statements of a result, in the order of the string returned
Sql(stmts) == [t |-> "sql", stmts |-> stmts]

\* Table.ddl with the children before the table itself
RECURSIVE ddl_ChildrenFirst(_, _, _, _)
ddl_ChildrenFirst(self, dialect, creates, drops) ==
    IF IsRaise(_dialect(dialect)) THEN _dialect(dialect)
    ELSE LET RECURSIVE Kids(_)
             Kids(children) ==
                 IF children = <<>> THEN <<>>
                 ELSE ddl_ChildrenFirst(Head(children), dialect, creates,
                                        drops).stmts
                      \o Kids(Tail(children))
         IN Sql(Kids(self.children)
                \o (IF drops
                    THEN <<[kind |-> "DROP", table |-> self.table_name]>>
                    ELSE <<>>)
                \o (IF creates
                    THEN <<[kind |-> "CREATE", table |-> self.table_name,
                            columns |-> self.columns]>>
                    ELSE <<>>))

\* Table.ddl(dialect, creates, drops)
RECURSIVE ddl(_, _, _, _)
ddl(self, dialect, creates, drops) ==
    IF IsRaise(_dialect(dialect)) THEN _dialect(dialect)
    ELSE LET RECURSIVE Kids(_)
             Kids(children) ==
                 IF children = <<>> THEN <<>>
                 ELSE ddl(Head(children), dialect, creates, drops).stmts
                      \o Kids(Tail(children))
         IN Sql((IF drops
                 THEN <<[kind |-> "DROP", table |-> self.table_name]>>
                 ELSE <<>>)
                \o (IF creates
                    THEN <<[kind |-> "CREATE", table |-> self.table_name,
                            columns |-> self.columns]>>
                    ELSE <<>>)
                \o Kids(self.children))

\* Table.inserts(dialect), consumed to its end.  For the sqla dialects
\* emit_db_sequence_updates reads self.source.db_engine, which a list of
\* rows does not have.
RECURSIVE inserts(_, _)
inserts(self, dialect) ==
    IF Truthy(dialect) /\ Len(dialect.s) >= 4
       /\ SubSeq(dialect.s, 1, 4) = <<"s", "q", "l", "a">>
    THEN IF self.data # <<>> THEN Raise("AttributeError")
         ELSE Sql(<<[kind |-> "COMMENT", table |-> self.table_name]>>)
    ELSE IF IsRaise(_dialect(dialect)) THEN _dialect(dialect)
    ELSE LET RECURSIVE Kids(_)
             Kids(children) ==
                 IF children = <<>> THEN <<>>
                 ELSE inserts(Head(children), dialect).stmts
                      \o Kids(Tail(children))
         IN Sql([i \in 1..Len(self.data) |->
                    [kind |-> "INSERT", table |-> self.table_name,
                     row |-> self.data[i]]]
                \o Kids(self.children))

\* Table.sql(dialect, inserts, creates, drops)
sql(self, dialect, with_inserts, creates, drops) ==
    Let(ddl(self, dialect, creates, drops), LAMBDA made :
        IF IsRaise(made) \/ ~with_inserts THEN made
        ELSE
    Let(inserts(self, dialect), LAMBDA rows :
        IF IsRaise(rows) THEN rows
        ELSE Sql(made.stmts \o rows.stmts)))

(***************************************************************************)
(* Inputs                                                                  *)
(***************************************************************************)
MaxRows == 3

Today == [year |-> 2014, month |-> 10, day |-> 10]

Fields == {"a", "b"}

\* a value that is not scalar: the list [1, 2]
NestedList == [t |-> "list", items |-> <<PyInt(1), PyInt(2)>>]

\* raw values of the profiled field: null, blank, integer, decimal, text, and
\* a nested value that reshaping left in the row
RawPool ==
    { PyNone,
      PyStr(<<>>),
      PyStr(<<"7">>),
      PyStr(<<"1", "2", "3", "4", "5">>),
      PyStr(<<"1", ".", "2", "5">>),
      PyStr(<<"1", "2", ".", "5">>),
      PyStr(<<"x", "b">>),
      NestedList }

FieldPool(f) == IF f = "a" THEN RawPool ELSE {PyStr(<<"x">>)}

Rows ==
    UNION { {r \in [S -> RawPool \cup {PyStr(<<"x">>)}] :
                \A f \in S : r[f] \in FieldPool(f)} : S \in SUBSET Fields }

TableOptions ==
    { [data_size_cushion |-> 0, varying_length_text |-> FALSE],
      [data_size_cushion |-> 1, varying_length_text |-> TRUE] }

(***************************************************************************)
(* Table._determine_types over a stream of rows                            *)
(***************************************************************************)
Init ==
    /\ pc = "run"
    /\ now = Today
    /\ data = <<>>
    /\ columns = <<>>
    /\ comments = <<>>
    /\ args \in TableOptions
    /\ result = <<>>
    /\ tbl = <<>>

\* the loop body of _determine_types for the next row of self.data
NextRow(row) ==
    /\ pc = "run"
    /\ Len(data) < MaxRows
    /\ data' = Append(data, row)
    /\ columns' = ProfileRow(columns, row, Len(data) + 1)
    /\ comments' = CommentRow(comments, row)
    /\ UNCHANGED <<pc, now, args, result, tbl>>

\* the rows are exhausted: every column's metadata is filled in
Finish ==
    /\ pc = "run"
    /\ pc' = "done"
    /\ columns' = FinishColumns(columns, args)
    /\ UNCHANGED <<now, data, comments, args, result, tbl>>

Next == (\E row \in Rows : NextRow(row)) \/ Finish

Spec == Init /\ [][Next]_vars

(***************************************************************************)
(* Table._determine_types over a column of integers near the 32-bit limit  *)
(***************************************************************************)
\* integers of ten digits on both sides of the limit, and a short one
IntegerTexts ==
    { <<"7">>,
      <<"2", "1", "4", "7", "4", "8", "3", "6", "4", "7">>,
      <<"2", "1", "4", "7", "4", "8", "3", "6", "4", "8">>,
      <<"-", "2", "1", "4", "7", "4", "8", "3", "6", "4", "8">> }

IntegerRows == {[a |-> PyStr(s)] : s \in IntegerTexts}

NextIntegers == (\E row \in IntegerRows : NextRow(row)) \/ Finish

SpecIntegers == Init /\ [][NextIntegers]_vars

(***************************************************************************)
(* best_representative applied to a pair of coerced values                 *)
(***************************************************************************)
CoercedPool ==
    { PyNone,
      PyDatetime(1999, 10, 10),
      PyBool(TRUE),
      PyBool(FALSE),
      PyInt(7),
      PyInt(12345),
      PyInt(-45),
      ParseDecimal(<<"1", ".", "2", "5">>),
      ParseDecimal(<<"-", "1", "2", ".", "5">>),
      ParseFloat(<<"2", ".", "5">>),
      ParseFloat(<<"-", "1", ".", "2", "5">>),
      PyStr(<<"x", "b">>),
      PyStr(<<"4", "8", "-", "4", "9">>),
      PyStr(<<>>),
      PyStr(<<" ">>) }

InitWiden ==
    /\ pc = "run"
    /\ now = Today
    /\ data = <<>>
    /\ columns = <<>>
    /\ comments = <<>>
    /\ args \in CoercedPool \X CoercedPool
    /\ result = <<>>
    /\ tbl = <<>>

Widen ==
    /\ pc = "run"
    /\ pc' = "done"
    /\ result' = best_representative(args[1], args[2])
    /\ UNCHANGED <<now, data, columns, comments, args, tbl>>

NextWiden == Widen

SpecWiden == InitWiden /\ [][NextWiden]_vars

(***************************************************************************)
(* coerce_to_specific applied to one raw datum                             *)
(***************************************************************************)
MaxLen == 3

RawChars == {"0", "1", "7", "-", ".", " ", "x", "n", "N"}

RawStrings == UNION {[1..n -> RawChars] : n \in 0..MaxLen}

CoerceInputs ==
    {PyNone, PyInt(0), PyInt(1), PyInt(7), PyInt(-45), PyInt(1999)}
    \cup {PyStr(s) : s \in RawStrings}
    \cup { PyStr(<<"1", "9", "9", "9">>),
           PyStr(<<"2", "0", "1", "4">>),
           PyStr(<<"1", "5", "0", "0">>),
           PyStr(<<"2", "0", "1", "4", "1", "0", "1", "0">>),
           PyStr(<<"1", "9", "9", "9", "0", "1", "0", "2">>) }

InitCoerce ==
    /\ pc = "run"
    /\ now \in {Today, [year |-> 1999, month |-> 1, day |-> 2]}
    /\ data = <<>>
    /\ columns = <<>>
    /\ comments = <<>>
    /\ args \in CoerceInputs
    /\ result = <<>>
    /\ tbl = <<>>

Coerce ==
    /\ pc = "run"
    /\ pc' = "done"
    /\ \E parsed \in DateutilOutcomes(args) : result' = coerce_given(args, parsed)
    /\ UNCHANGED <<now, data, columns, comments, args, tbl>>

NextCoerce == Coerce

SpecCoerce == InitCoerce /\ [][NextCoerce]_vars

(***************************************************************************)
(* Table.__init__: walk_and_clean, then unnest_children                    *)
(***************************************************************************)
MaxTableRows == 2

TableName == <<"t">>

\* the fields a raw row may hold, in this order: a key, a name whose
\* spelling needs cleaning, a nested list
IdItems == {<<>>} \cup {<<[k |-> <<"i", "d">>, v |-> PyInt(n)]>> : n \in 0..2}

NameItems == { <<>>, <<[k |-> <<"N", "m">>, v |-> PyStr(<<"x">>)]>> }

KidsItems ==
    { <<>>,
      <<[k |-> <<"k", "i", "d", "s">>,
         v |-> PyList(<<PyDict(<<[k |-> <<"v">>, v |-> PyInt(5)]>>)>>)]>> }

\* a row whose two spellings of one name are cleaned to the same key
ClashingRow ==
    PyDict(<<[k |-> <<"N", "m">>, v |-> PyStr(<<"x">>)],
             [k |-> <<"n", "m", " ">>, v |-> PyStr(<<"x">>)]>>)

RawRows ==
    {PyDict(i \o n \o c) : i \in IdItems, n \in NameItems, c \in KidsItems}
    \cup {ClashingRow}

RawTables == UNION {[1..n -> RawRows] : n \in 0..MaxTableRows}

KeyNames == {PyNone, PyStr(<<"i", "d">>), PyStr(<<"k">>)}

InitReshape ==
    /\ pc = "run"
    /\ now = Today
    /\ data = <<>>
    /\ columns = <<>>
    /\ comments = <<>>
    /\ args \in [rows : RawTables, table_name : {TableName},
                 pk_name : KeyNames, force_pk : BOOLEAN]
    /\ result = <<>>
    /\ tbl = <<>>

Reshape ==
    /\ pc = "run"
    /\ pc' = "done"
    /\ tbl' = reshape(args.rows, args.table_name, args.pk_name, args.force_pk)
    /\ UNCHANGED <<now, data, columns, comments, args, result>>

NextReshape == Reshape

SpecReshape == InitReshape /\ [][NextReshape]_vars

(***************************************************************************)
(* ParentTable.assign_pk on a table that has no key yet                    *)
(***************************************************************************)
MaxKeyRows == 3

\* the candidate key of a row: missing, an integer or a string
KeyItems ==
    {<<>>}
    \cup {<<[k |-> <<"i", "d">>, v |-> PyInt(n)]>> : n \in 2..3}
    \cup {<<[k |-> <<"i", "d">>, v |-> PyStr(s)]>> : s \in {<<"x">>, <<"x", "b">>}}

KeyRows == {PyDict(i) : i \in KeyItems}

KeyTables == UNION {[1..n -> KeyRows] : n \in 0..MaxKeyRows}

InitAssignPk ==
    /\ pc = "run"
    /\ now = Today
    /\ data = <<>>
    /\ columns = <<>>
    /\ comments = <<>>
    /\ args \in [rows : KeyTables, name : {TableName},
                 pk_name : {PyNone, PyStr(<<"i", "d">>)}]
    /\ result = <<>>
    /\ tbl = <<>>

\* self.assign_pk() on the table as the constructor leaves it at line 214
AssignPk ==
    /\ pc = "run"
    /\ pc' = "done"
    /\ tbl' = assign_pk([t |-> "ParentTable", rows |-> args.rows,
                         name |-> args.name, pk_name |-> args.pk_name,
                         pk |-> PyNone])
    /\ UNCHANGED <<now, data, columns, comments, args, result>>

NextAssignPk == AssignPk

SpecAssignPk == InitAssignPk /\ [][NextAssignPk]_vars

(***************************************************************************)
(* Table.__init__ over rows that hold nested lists                         *)
(***************************************************************************)
MaxListRows == 2

Kids == <<"k", "i", "d", "s">>

\* a child that already uses every name a foreign key may take
AllUsed ==
    PyDict(<<[k |-> <<"t", "_", "k">>, v |-> PyInt(1)],
             [k |-> <<"t", "_", "i", "d">>, v |-> PyInt(1)],
             [k |-> <<"_", "t", "_", "i", "d">>, v |-> PyInt(1)],
             [k |-> <<"p", "a", "r", "e", "n", "t", "_", "i", "d">>,
              v |-> PyInt(1)]>>)

\* the nested list of a row: missing, empty, a scalar, a scalar and a child
\* record, or one child record
KidsItems2 ==
    {<<>>}
    \cup { <<[k |-> Kids, v |-> PyList(l)]>> :
             l \in { <<>>,
                     <<PyInt(5)>>,
                     <<PyInt(6), PyDict(<<[k |-> <<"v">>, v |-> PyInt(7)]>>)>>,
                     <<PyDict(<<[k |-> <<"v">>, v |-> PyInt(5)]>>)>>,
                     <<PyDict(<<[k |-> <<"t", "_", "i", "d">>, v |-> PyInt(1)]>>)>>,
                     <<AllUsed>> } }

ListIdItems == {<<>>} \cup {<<[k |-> <<"i", "d">>, v |-> PyInt(n)]>> : n \in 2..3}

\* rows with a second nested list
TwoListRows ==
    { PyDict(i \o <<[k |-> Kids, v |-> PyList(<<PyInt(5)>>)],
                    [k |-> <<"w">>, v |-> PyList(<<PyInt(7)>>)]>>) :
        i \in {<<>>, <<[k |-> <<"i", "d">>, v |-> PyInt(2)]>>} }

ListRows ==
    {PyDict(i \o c) : i \in ListIdItems, c \in KidsItems2} \cup TwoListRows

ListTables == UNION {[1..n -> ListRows] : n \in 0..MaxListRows}

InitLists ==
    /\ pc = "run"
    /\ now = Today
    /\ data = <<>>
    /\ columns = <<>>
    /\ comments = <<>>
    /\ args \in [rows : ListTables, table_name : {TableName},
                 pk_name : KeyNames, force_pk : BOOLEAN]
    /\ result = <<>>
    /\ tbl = <<>>

SpecLists == InitLists /\ [][NextReshape]_vars

(***************************************************************************)
(* Rows that hold a nested mapping                                         *)
(***************************************************************************)
MaxDictRows == 1

Nested == <<"c">>

\* the fields a nested mapping may hold: an id, two names that differ by a
\* leading underscore, and a mapping
NestedFields ==
    <<[k |-> <<"i", "d">>, v |-> PyInt(1)],
      [k |-> <<"x">>, v |-> PyInt(1)],
      [k |-> <<"_", "x">>, v |-> PyInt(2)],
      [k |-> <<"y">>, v |-> PyDict(<<[k |-> <<"p">>, v |-> PyInt(1)],
                                     [k |-> <<"q">>, v |-> PyInt(2)]>>)]>>

\* the mappings over a subset of these fields, in their order
Mappings ==
    {PyDict(SelectSeq(NestedFields, LAMBDA f : f.k \in ks)) :
        ks \in SUBSET Range(DKeys(NestedFields))}

\* the fields of the parent that precede the nested mapping
ParentFields ==
    <<[k |-> <<"a">>, v |-> PyInt(9)],
      [k |-> <<"c", "_", "x">>, v |-> PyInt(9)]>>

DictRows ==
    {PyDict(SelectSeq(ParentFields, LAMBDA f : f.k \in ks)
            \o <<[k |-> Nested, v |-> m]>>) :
        ks \in SUBSET Range(DKeys(ParentFields)), m \in Mappings}

DictTables == UNION {[1..n -> DictRows] : n \in 0..MaxDictRows}

InitDicts ==
    /\ pc = "run"
    /\ now = Today
    /\ data = <<>>
    /\ columns = <<>>
    /\ comments = <<>>
    /\ args \in [rows : DictTables, table_name : {TableName},
                 pk_name : KeyNames, force_pk : BOOLEAN]
    /\ result = <<>>
    /\ tbl = <<>>

SpecDicts == InitDicts /\ [][NextReshape]_vars

(***************************************************************************)
(* unnest_child_dict on one parent row                                     *)
(***************************************************************************)
InitChildDict ==
    /\ pc = "run"
    /\ now = Today
    /\ data = <<>>
    /\ columns = <<>>
    /\ comments = <<>>
    /\ args \in [parent : DictRows, key : {Nested}, parent_name : {TableName}]
    /\ result = <<>>
    /\ tbl = <<>>

\* the parent after unnest_child_dict(parent, key, parent_name)
UnnestChildDict ==
    /\ pc = "run"
    /\ pc' = "done"
    /\ tbl' = unnest_child_dict(args.parent, args.key, args.parent_name)
    /\ UNCHANGED <<now, data, columns, comments, args, result>>

NextChildDict == UnnestChildDict

SpecChildDict == InitChildDict /\ [][NextChildDict]_vars

(***************************************************************************)
(* clean_key_name on one field name                                        *)
(***************************************************************************)
MaxNameLen == 3

\* a blank, letters of both cases that spell reserved words, a digit and
\* a character that is illegal in a column name
NameChars == {" ", "n", "O", "1", "-"}

FieldNames == UNION {[1..n -> NameChars] : n \in 1..MaxNameLen}

InitClean ==
    /\ pc = "run"
    /\ now = Today
    /\ data = <<>>
    /\ columns = <<>>
    /\ comments = <<>>
    /\ args \in [key : FieldNames]
    /\ result = <<>>
    /\ tbl = <<>>

\* clean_key_name(key)
CleanKeyName ==
    /\ pc = "run"
    /\ pc' = "done"
    /\ tbl' = clean_key_name(args.key)
    /\ UNCHANGED <<now, data, columns, comments, args, result>>

NextClean == CleanKeyName

SpecClean == InitClean /\ [][NextClean]_vars

(***************************************************************************)
(* Table(...) over nested rows, then one of ddl, inserts, sql              *)
(***************************************************************************)
MaxTreeRows == 2

Toys == <<"t", "o", "y", "s">>

\* a child record, alone or with a nested list of its own
Kid == PyDict(<<[k |-> <<"v">>, v |-> PyInt(5)]>>)

KidWithToys ==
    PyDict(<<[k |-> <<"v">>, v |-> PyInt(5)],
             [k |-> Toys, v |-> PyList(<<PyInt(7)>>)]>>)

TreeKids ==
    {<<>>}
    \cup { <<[k |-> Kids, v |-> PyList(l)]>> :
             l \in { <<PyInt(5)>>, <<Kid>>, <<KidWithToys>>,
                     <<KidWithToys, Kid>> } }

TreeRows ==
    {PyDict(i \o c) :
        i \in {<<>>, <<[k |-> <<"i", "d">>, v |-> PyInt(2)]>>},
        c \in TreeKids}

TreeTables == UNION {[1..n -> TreeRows] : n \in 0..MaxTreeRows}

Dialects ==
    {PyNone, PyStr(<<"p", "o", "s", "t", "g", "r", "e", "s", "q", "l">>),
     PyStr(<<"s", "q", "l", "a", "l", "c", "h", "e", "m", "y">>)}

InitTable ==
    /\ pc = "run"
    /\ now = Today
    /\ data = <<>>
    /\ columns = <<>>
    /\ comments = <<>>
    /\ args \in [rows : TreeTables, table_name : {TableName},
                 pk_name : KeyNames, force_pk : BOOLEAN, reorder : BOOLEAN]
    /\ result = <<>>
    /\ tbl = <<>>

\* Table(data, table_name, pk_name=..., force_pk=..., reorder=...)
BuildTable ==
    /\ pc = "run"
    /\ tbl' = Table(args.rows, args.table_name, args.pk_name, args.force_pk,
                    PyNone, PyNone, args.reorder)
    /\ pc' = IF IsRaise(tbl') THEN "failed" ELSE "built"
    /\ UNCHANGED <<now, data, columns, comments, args, result>>

\* table.ddl(dialect, creates, drops)
EmitDdl ==
    /\ pc = "built"
    /\ \E dialect \in Dialects, creates, drops \in BOOLEAN :
           result' = [call |-> "ddl", out |-> ddl(tbl, dialect, creates, drops)]
    /\ pc' = "done"
    /\ UNCHANGED <<now, data, columns, comments, args, tbl>>

\* list(table.inserts(dialect))
EmitInserts ==
    /\ pc = "built"
    /\ \E dialect \in Dialects :
           result' = [call |-> "inserts", out |-> inserts(tbl, dialect)]
    /\ pc' = "done"
    /\ UNCHANGED <<now, data, columns, comments, args, tbl>>

\* table.sql(dialect, inserts, creates, drops)
EmitSql ==
    /\ pc = "built"
    /\ \E dialect \in Dialects, with_inserts, creates, drops \in BOOLEAN :
           result' = [call |-> "sql",
                      out |-> sql(tbl, dialect, with_inserts, creates, drops)]
    /\ pc' = "done"
    /\ UNCHANGED <<now, data, columns, comments, args, tbl>>

NextTable == BuildTable \/ EmitDdl \/ EmitInserts \/ EmitSql

SpecTable == InitTable /\ [][NextTable]_vars

(***************************************************************************)
(* coerce_to_specific on text that spells a date                           *)
(***************************************************************************)
\* years below, at, inside and above the bounds of line 90
DateYears == {1500, YearMin, YearMin + 1, 2014, YearMax - 1, YearMax, 3000}

MonthDays == {<<"0", "1", "0", "1">>, <<"1", "0", "1", "0">>,
              <<"1", "2", "2", "8">>}

DateTexts ==
    {NatToStr(y) : y \in DateYears}
    \cup {NatToStr(y) \o md : y \in DateYears, md \in MonthDays}
    \cup {NatToStr(y) \o <<"-">> \o SubSeq(md, 1, 2) \o <<"-">>
          \o SubSeq(md, 3, 4) : y \in DateYears, md \in MonthDays}
    \cup {<<"9", " ", "j", "a", "n", " ">> \o NatToStr(y) :
             y \in DateYears \cup {461}}
    \cup {<<"5">>, <<"1", "0">>}

InitDates ==
    /\ pc = "run"
    /\ now \in {Today, [year |-> 2014, month |-> 1, day |-> 1]}
    /\ data = <<>>
    /\ columns = <<>>
    /\ comments = <<>>
    /\ args \in {PyStr(s) : s \in DateTexts}
    /\ result = <<>>
    /\ tbl = <<>>

SpecDates == InitDates /\ [][NextCoerce]_vars

(***************************************************************************)
(* Properties of the column profiler (Spec)                                *)
(***************************************************************************)
\* the raw values of field k, in row order
RECURSIVE ColumnValues(_, _)
ColumnValues(rows, k) ==
    IF rows = <<>> THEN <<>>
    ELSE (IF k \in DOMAIN Head(rows) THEN <<Head(rows)[k]>> ELSE <<>>)
         \o ColumnValues(Tail(rows), k)


\* _determine_types run over a whole list of rows
RECURSIVE ProfileFold(_, _, _)
ProfileFold(cols, rows, n) ==
    IF rows = <<>> THEN cols
    ELSE ProfileFold(ProfileRow(cols, Head(rows), n), Tail(rows), n + 1)

ProfileAll(rows, opts) == FinishColumns(ProfileFold(<<>>, rows, 1), opts)

\* digits before and after the decimal point of an integer or decimal value
IntegerDigits(v) ==
    IF IsZero(v.digs) THEN 0 ELSE Max(Len(v.digs) + NumExp(v), 0)

FractionDigits(v) == Max(-1 * NumExp(v), 0)

Cushionless == args.data_size_cushion = 0 /\ ~args.varying_length_text

\* the column's non-null values are integers and decimals, one a decimal
DecimalColumn(k) ==
    LET vs == {coerce_to_specific(r) : r \in Range(ColumnValues(data, k))}
    IN /\ \A v \in vs : v.t \in {"NoneType", "int", "Decimal"}
       /\ \E v \in vs : v.t = "Decimal"

\* C1: the DECIMAL(precision, scale) inferred for a column of integers and
\* decimals holds every observed value: precision - scale covers the integer
\* digits and scale the fractional digits of each value, in any row order.
C1_DecimalHoldsEveryValue ==
    (pc = "done" /\ Cushionless) =>
        \A k \in DOMAIN columns :
            DecimalColumn(k) =>
                /\ columns[k].satype.name = "DECIMAL"
                /\ \A r \in Range(ColumnValues(data, k)) :
                      LET v == coerce_to_specific(r) IN
                      v.t # "NoneType" =>
                          /\ columns[k].satype.precision - columns[k].satype.scale
                                >= IntegerDigits(v)
                          /\ columns[k].satype.scale >= FractionDigits(v)

RowOrders(n) ==
    {f \in [1..n -> 1..n] : \A i, j \in 1..n : i # j => f[i] # f[j]}

\* the rows of s at the indices of the set idx, in their order
RECURSIVE SubRows(_, _, _)
SubRows(s, idx, i) ==
    IF i > Len(s) THEN <<>>
    ELSE (IF i \in idx THEN <<s[i]>> ELSE <<>>) \o SubRows(s, idx, i + 1)

Widths(col) == <<col.satype.precision, col.satype.scale, col.satype.length>>

\* C3: the final precision, scale and text length of every column are the
\* same for every permutation of the rows, and at least those computed from
\* any subset of the rows.
C3_OrderIndependentAndMonotonic ==
    pc = "done" =>
        /\ \A f \in RowOrders(Len(data)) :
              LET other == ProfileAll([i \in 1..Len(data) |-> data[f[i]]], args)
              IN \A k \in DOMAIN columns : Widths(other[k]) = Widths(columns[k])
        /\ \A idx \in SUBSET (1..Len(data)) :
              LET part == ProfileAll(SubRows(data, idx, 1), args) IN
              \A k \in DOMAIN part :
                  \A i \in 1..3 : Widths(columns[k])[i] >= Widths(part[k])[i]

\* C5: a column is unique exactly if no two rows that hold a non-null value
\* in it share the same coerced value; null values never count as duplicates.
C5_UniqueIffDistinct ==
    pc = "done" =>
        \A k \in DOMAIN columns :
            columns[k].is_unique <=>
                LET vs == ColumnValues(data, k) IN
                \A i, j \in 1..Len(vs) :
                    (i # j /\ vs[i].t # "NoneType" /\ vs[j].t # "NoneType")
                        => ~PyEq(coerce_to_specific(vs[i]),
                                 coerce_to_specific(vs[j]))

\* a raw value that is null or blank (empty or whitespace-only text)
NullOrBlank(r) == r.t = "NoneType" \/ (r.t = "str" /\ strip(r.s) = <<>>)

\* C6: a column is nullable exactly if some row lacks the field (before or
\* after the first row that has it) or holds a null or blank value in it.
C6_NullableIff ==
    \A k \in DOMAIN columns :
        columns[k].is_nullable <=>
            \E i \in 1..Len(data) :
                k \notin DOMAIN data[i] \/ NullOrBlank(data[i][k])

\* a finished table of three rows with a NOT NULL column and a column that is
\* nullable only because the first row lacks it
C6_Witness ==
    /\ pc = "done"
    /\ Len(data) = 3
    /\ DOMAIN columns = {"a", "b"}
    /\ ~columns["a"].is_nullable
    /\ columns["b"].is_nullable
    /\ "b" \notin DOMAIN data[1]
    /\ \A i \in 2..3 : "b" \in DOMAIN data[i]

\* the greatest of a non-empty set of numbers
MaxOf(S) == CHOOSE m \in S : \A x \in S : x <= m

\* C7: the length declared for a Text column equals the greatest printed
\* length among the column's observed raw values, whatever the earlier rows
\* of the column coerced to.
C7_TextLengthIsMaxSeen ==
    (pc = "done" /\ Cushionless) =>
        \A k \in DOMAIN columns :
            columns[k].satype.name = "Unicode" =>
                columns[k].satype.length =
                    MaxOf({Len(Str(r)) : r \in Range(ColumnValues(data, k))})

(***************************************************************************)
(* Properties of best_representative (SpecWiden)                           *)
(***************************************************************************)
\* C2: best_representative is commutative: widening a with b gives the same
\* value as widening b with a.
C2_Commutative ==
    pc = "done" => result = best_representative(args[2], args[1])

(***************************************************************************)
(* Properties of coerce_to_specific (SpecCoerce)                           *)
(***************************************************************************)
CoercedTypes == {"datetime", "bool", "int", "Decimal", "float", "str"}

\* C4: coerce_to_specific never raises; its result is null only for a null
\* input and otherwise a value of one of the six types, the text itself when
\* no parser accepts it.
C4_CoerceTotal ==
    pc = "done" =>
        /\ ~IsRaise(result)
        /\ result.t = "NoneType" <=> args.t = "NoneType"
        /\ result.t \in CoercedTypes \cup {"NoneType"}
        /\ result.t = "str" => result = PyStr(Str(args))
        /\ ( /\ args.t = "str"
             /\ IsRaise(ParseInt(args.s))
             /\ IsRaise(ParseDecimal(args.s))
             /\ IsRaise(ParseFloat(args.s))
             /\ lower(strip(args.s)) \notin FalseWords \cup TrueWords
             /\ result.t # "datetime" ) => result = PyStr(args.s)

\* text that no parser accepts has come back as Text
C4_Witness ==
    /\ pc = "done"
    /\ args = PyStr(<<"-", ".", "x">>)
    /\ result = PyStr(<<"-", ".", "x">>)
(***************************************************************************)
(* Properties of the reshaper (SpecReshape)                                *)
(***************************************************************************)
\* no value of any row is a mapping or a list
Flat(rows) ==
    \A i \in 1..Len(rows) : \A j \in 1..Len(rows[i].items) :
        rows[i].items[j].v.t \notin {"dict", "list", "tuple"}

\* two field names of one row are cleaned to the same name
KeysClash(rows) ==
    \E i \in 1..Len(rows) : \E j, k \in 1..Len(rows[i].items) :
        /\ j # k
        /\ clean_key_name(rows[i].items[j].k) = clean_key_name(rows[i].items[k].k)

\* the row with every field name cleaned and every value as it was
Canonicalized(row) ==
    PyDict([j \in 1..Len(row.items) |->
               [k |-> clean_key_name(row.items[j].k).s, v |-> row.items[j].v]])

\* C8: for rows without nested mappings or lists, no key name requested and
\* force_pk false, walk_and_clean followed by unnest_children returns the
\* same rows in the same order with the same values, only the field names
\* cleaned, pk_name None and no children; rows whose cleaned field names
\* clash are rejected with KeyError.
C8_RoundTrip ==
    (/\ pc = "done"
     /\ Flat(args.rows)
     /\ args.pk_name = PyNone
     /\ ~args.force_pk)
    => IF KeysClash(args.rows) THEN tbl = Raise("KeyError")
       ELSE /\ tbl.t = "unnested"
            /\ tbl.data = [i \in 1..Len(args.rows) |-> Canonicalized(args.rows[i])]
            /\ tbl.pk_name = PyNone
            /\ tbl.children = <<>>

C8_Witness ==
    /\ pc = "done"
    /\ args.pk_name = PyNone
    /\ ~args.force_pk
    /\ args.rows = << PyDict(<<[k |-> <<"i", "d">>, v |-> PyInt(1)],
                              [k |-> <<"N", "m">>, v |-> PyStr(<<"x">>)]>>),
                      PyDict(<<[k |-> <<"i", "d">>, v |-> PyInt(0)]>>) >>
    /\ tbl.t = "unnested"
    /\ tbl.data[1].items[2].k = <<"n", "m">>
    /\ tbl.data[2] = args.rows[2]

\* C9: whenever a key name is requested and a table is returned, the table
\* has a primary key with that name and every row holds that field.
C9_RequestedKeyIsPrimaryKey ==
    (/\ pc = "done"
     /\ args.pk_name.t = "str"
     /\ tbl.t = "unnested")
    => /\ tbl.pk_name = args.pk_name
       /\ \A i \in 1..Len(tbl.data) : DHas(tbl.data[i].items, args.pk_name.s)

\* the field assign_pk examines: the requested name, or <table>_id
CandidateKey == IF args.pk_name.t = "str" THEN args.pk_name.s
                ELSE lower(args.table_name) \o <<"_", "i", "d">>

\* the candidate is in every row, with pairwise distinct integer values
ExactIntegerKey(rows, key) ==
    /\ rows # <<>>
    /\ \A i \in 1..Len(rows) :
          DHas(rows[i].items, key) /\ DGet(rows[i].items, key).t = "int"
    /\ \A i, j \in 1..Len(rows) :
          i # j => ~PyEq(DGet(rows[i].items, key), DGet(rows[j].items, key))

\* C10: when the constructor of the parent table assigns the key and the
\* candidate field is in every row with pairwise distinct integers, nothing
\* is raised, the candidate is the primary key and the rows are unchanged.
C10_ExactKeyUsableAsIs ==
    (/\ pc = "done"
     /\ Flat(args.rows)
     /\ ~KeysClash(args.rows)
     /\ ExactIntegerKey(args.rows, CandidateKey)
     /\ AssignsAtInit(args.rows, args.pk_name, args.force_pk))
    => /\ tbl.t = "unnested"
       /\ tbl.pk_name = PyStr(CandidateKey)
       /\ tbl.data = [i \in 1..Len(args.rows) |-> Canonicalized(args.rows[i])]

(***************************************************************************)
(* Properties of the key assigner (SpecAssignPk)                           *)
(***************************************************************************)
\* C11: after assign_pk completes without error every row holds the
\* primary-key field and no two rows hold the same key value, for integer
\* and for string keys, whether the candidate was absent, partial or exact.
C11_KeysPresentAndDistinct ==
    (pc = "done" /\ ~IsRaise(tbl))
    => /\ \A i \in 1..Len(tbl.rows) : DHas(tbl.rows[i].items, tbl.pk.name)
       /\ \A i, j \in 1..Len(tbl.rows) :
             i # j => ~PyEq(DGet(tbl.rows[i].items, tbl.pk.name),
                            DGet(tbl.rows[j].items, tbl.pk.name))

\* the name assign_pk tries: the requested one, or <table>_id
TriedKey == IF args.pk_name.t = "str" THEN args.pk_name.s
            ELSE args.name \o <<"_", "i", "d">>

\* some name of the candidate list (the request, id, <table>_id) is in
\* no row, so a key could still be generated under it
SomeCandidateFree ==
    \E c \in {TriedKey, <<"i", "d">>, args.name \o <<"_", "i", "d">>} :
        \A i \in 1..Len(args.rows) : ~DHas(args.rows[i].items, c)

\* C12: a candidate that is in every row but holds a duplicate value is
\* passed over for the next candidate; assign_pk raises only when no
\* candidate is left.
C12_DuplicateFallsBack ==
    (/\ pc = "done"
     /\ args.rows # <<>>
     /\ \A i \in 1..Len(args.rows) : DHas(args.rows[i].items, TriedKey)
     /\ \E i, j \in 1..Len(args.rows) :
           i # j /\ PyEq(DGet(args.rows[i].items, TriedKey),
                         DGet(args.rows[j].items, TriedKey))
     /\ SomeCandidateFree)
    => ~IsRaise(tbl)

(***************************************************************************)
(* Properties of the nested lists (SpecLists)                              *)
(***************************************************************************)
\* the fields that hold a list in some raw row, and those whose list has
\* an item in some raw row
ListFields(rows) ==
    UNION {{rows[i].items[j].k : j \in {j \in 1..Len(rows[i].items) :
                                           rows[i].items[j].v.t = "list"}} :
              i \in 1..Len(rows)}

FilledListFields(rows) ==
    {f \in ListFields(rows) :
        \E i \in 1..Len(rows) :
            /\ DHas(rows[i].items, f)
            /\ DGet(rows[i].items, f).t = "list"
            /\ DGet(rows[i].items, f).items # <<>>}

\* the items of the lists of field f over the raw rows, in row order and
\* list order, a scalar item as the record {f: item}
RECURSIVE ExpectedItems(_, _)
ExpectedItems(rows, f) ==
    IF rows = <<>> THEN <<>>
    ELSE (IF DHas(Head(rows).items, f)
          THEN LET l == DGet(Head(rows).items, f).items IN
               [j \in 1..Len(l) |->
                   IF l[j].t = "dict" THEN l[j]
                   ELSE PyDict(<<[k |-> f, v |-> l[j]]>>)]
          ELSE <<>>)
         \o ExpectedItems(Tail(rows), f)

\* the field names of the items of field f
ItemNames(rows, f) ==
    UNION {Range(DKeys(ExpectedItems(rows, f)[j].items)) :
              j \in 1..Len(ExpectedItems(rows, f))}

ParentId == <<"t", "_", "i", "d">>

\* <parent>_id, the disambiguated _<parent>_id, parent_id
PlainCandidates ==
    <<ParentId, <<"_">> \o ParentId,
      <<"p", "a", "r", "e", "n", "t", "_", "i", "d">>>>

\* the same, after <parent>_<key name> when a key name was requested
KeyedCandidates ==
    (IF args.pk_name.t = "str"
     THEN <<TableName \o <<"_">> \o args.pk_name.s>> ELSE <<>>)
    \o PlainCandidates

AllTaken(cands, names) == \A i \in 1..Len(cands) : cands[i] \in names

FirstFree(cands, names) ==
    cands[MinOf({i \in 1..Len(cands) : cands[i] \notin names})]

\* the foreign key of every child is the first candidate that no item of
\* the child uses, no value of an item is overwritten, and reshaping
\* raises when every candidate is used
ForeignKeysFrom(cands) ==
    IF \E f \in FilledListFields(args.rows) :
           AllTaken(cands, ItemNames(args.rows, f))
    THEN IsRaise(tbl)
    ELSE ~IsRaise(tbl) =>
         \A f \in FilledListFields(args.rows) :
             /\ DHas(tbl.child_fk_names, f)
             /\ DGet(tbl.child_fk_names, f)
                    = FirstFree(cands, ItemNames(args.rows, f))
             /\ [j \in 1..Len(DGet(tbl.children, f)) |->
                    PyDict(DPop(DGet(tbl.children, f)[j].items,
                                DGet(tbl.child_fk_names, f)))]
                    = ExpectedItems(args.rows, f)

\* C14 as amended: the candidates are <parent>_<key name> (only when a key
\* name was requested), <parent>_id, _<parent>_id, parent_id; the foreign
\* key of a child is the first of them that is a field of no item of the
\* child, stamping overwrites no value, and if all are used
\* unnest_children raises.
C14_ForeignKeyName == pc = "done" => ForeignKeysFrom(KeyedCandidates)

C14_Witness ==
    /\ pc = "done"
    /\ args.pk_name = PyNone
    /\ Len(args.rows) = 2
    /\ tbl.t = "unnested"
    /\ tbl.child_fk_names = <<[k |-> Kids, v |-> <<"_">> \o ParentId]>>
    /\ Len(DGet(tbl.children, Kids)) = 2

\* C14 as stated: the candidates are <parent>_id, the disambiguated
\* variant and parent_id, in this order, whatever key name was requested.
C14_PlainOrder == pc = "done" => ForeignKeysFrom(PlainCandidates)

\* C15: after unnest_children returns no parent row holds a list, and
\* every field that held a list, an empty one included, names a child.
C15_NoListLeft ==
    (pc = "done" /\ ~IsRaise(tbl))
    => /\ \A i \in 1..Len(tbl.data) : \A j \in 1..Len(tbl.data[i].items) :
             tbl.data[i].items[j].v.t \notin {"list", "tuple"}
       /\ \A f \in ListFields(args.rows) : DHas(tbl.children, f)

(***************************************************************************)
(* Properties of the nested mappings (SpecDicts, SpecChildDict)            *)
(***************************************************************************)
\* the nested mapping of a row once its id is dropped: the id goes only
\* from a mapping of at most 2 fields
Remaining(row) ==
    LET val == DGet(row.items, Nested).items IN
    IF DHas(val, <<"i", "d">>) /\ Len(val) <= 2 THEN DPop(val, <<"i", "d">>)
    ELSE val

\* pushing the remaining fields up meets a field of the parent
Collides(row) ==
    /\ Len(Remaining(row)) > 1
    /\ \E i \in 1..Len(Remaining(row)) :
           DHas(row.items, NewFieldName(Nested, Remaining(row)[i].k))

\* every field of the parent but k is in the result with its value
OthersKept(before, after) ==
    \A i \in 1..Len(before.items) :
        before.items[i].k # Nested
        => /\ DHas(after.items, before.items[i].k)
           /\ DGet(after.items, before.items[i].k) = before.items[i].v

\* C16: after reshaping no row of the table holds a mapping, however deep
\* the mappings of the records were nested.
C16_NoMappingLeft ==
    (pc = "done" /\ ~IsRaise(tbl))
    => \A i \in 1..Len(tbl.data) : \A j \in 1..Len(tbl.data[i].items) :
           ~HasItems(tbl.data[i].items[j].v)

\* C17: unnest_child_dict drops the id of a mapping of at most 2 fields;
\* then an empty mapping removes k, a mapping of one field replaces k by
\* the value, and otherwise k is removed and the parent holds every
\* remaining nested value under k_<subfield>; the other fields of the
\* parent are unchanged.
C17_UnnestChildDict ==
    (pc = "done" /\ ~Collides(args.parent))
    => LET rest == Remaining(args.parent) IN
       /\ ~IsRaise(tbl)
       /\ OthersKept(args.parent, tbl)
       /\ CASE Len(rest) = 0 -> tbl = PyDict(DPop(args.parent.items, Nested))
            [] Len(rest) = 1 ->
                   tbl = PyDict(DSet(args.parent.items, Nested, rest[1].v))
            [] OTHER ->
                   /\ ~DHas(tbl.items, Nested)
                   /\ \A i \in 1..Len(rest) :
                          /\ DHas(tbl.items, NewFieldName(Nested, rest[i].k))
                          /\ DGet(tbl.items, NewFieldName(Nested, rest[i].k))
                                 = rest[i].v
                   /\ Len(tbl.items) = Len(args.parent.items) - 1 + Len(rest)

\* C18: when pushing a nested mapping up would meet a field of the parent
\* row, reshaping raises: no table is returned and so no field of the
\* parent is overwritten.
C18_CollisionIsFatal ==
    (pc = "done" /\ \E i \in 1..Len(args.rows) : Collides(args.rows[i]))
    => IsRaise(tbl)

C18_Witness ==
    /\ pc = "done"
    /\ Len(args.rows) = 1
    /\ args.pk_name = PyNone
    /\ DHas(args.rows[1].items, <<"c", "_", "x">>)
    /\ DKeys(DGet(args.rows[1].items, Nested).items) = << <<"x">>, <<"y">> >>
    /\ tbl = Raise("TypeError")

(***************************************************************************)
(* Properties of the field names (SpecClean)                               *)
(***************************************************************************)
\* C20: for every non-empty field name clean_key_name returns a name that
\* is lowercase, holds only characters of [a-z0-9_$#], does not begin with
\* a digit and is not a reserved word.
C20_CanonicalName ==
    (pc = "done" /\ args.key # <<>>)
    => /\ tbl.t = "str"
       /\ tbl.s # <<>>
       /\ \A i \in 1..Len(tbl.s) :
              tbl.s[i] \in Range(LowerLetters) \cup Digits \cup {"_", "$", "#"}
       /\ tbl.s[1] \notin Digits
       /\ upper(tbl.s) \notin sql_reserved_words

(***************************************************************************)
(* Properties of the tables (SpecTable)                                    *)
(***************************************************************************)
Built == pc \in {"built", "done"}

\* the table and the tables below it, at any depth
RECURSIVE Subtables(_)
Subtables(table) ==
    {table} \cup UNION {Subtables(table.children[i]) :
                           i \in 1..Len(table.children)}

\* the values of the primary key over the rows of a table
KeyValues(table) ==
    {DGet(table.data[i].items, table.pk_name.s) :
        i \in {i \in 1..Len(table.data) :
                  DHas(table.data[i].items, table.pk_name.s)}}

\* the child declares its foreign key field as a foreign key to the
\* primary key column of the parent, and every row of the child holds
\* under it a key value of the parent
RefersTo(child, parent) ==
    /\ parent.pk_name # PyNone
    /\ \E i \in 1..Len(parent.columns) :
           /\ parent.columns[i].name = parent.pk_name.s
           /\ parent.columns[i].primary_key
    /\ \E i \in 1..Len(child.columns) :
           /\ child.columns[i].name = child.fk_field_name
           /\ child.columns[i].fk
                  = [t |-> "ForeignKey", table |-> parent.table_name,
                     column |-> parent.pk_name.s]
    /\ \A j \in 1..Len(child.data) :
           /\ DHas(child.data[j].items, child.fk_field_name)
           /\ DGet(child.data[j].items, child.fk_field_name)
                  \in KeyValues(parent)

\* for every item of the lists of field f over the raw rows, in row order
\* and list order, the index of the row that held it
RECURSIVE Owners(_, _, _)
Owners(rows, f, i) ==
    IF i > Len(rows) THEN <<>>
    ELSE (IF DHas(rows[i].items, f)
          THEN [j \in 1..Len(DGet(rows[i].items, f).items) |-> i]
          ELSE <<>>)
         \o Owners(rows, f, i + 1)

\* C13: every row of every child table, at any depth, carries the foreign
\* key field, its value is the primary key value of the parent row whose
\* list held it and so a key value of the parent, and the child table
\* declares that column a foreign key to the parent's primary key column.
C13_ReferentialIntegrity ==
    Built
    => /\ \A parent \in Subtables(tbl) : \A c \in 1..Len(parent.children) :
              RefersTo(parent.children[c], parent)
       /\ \A c \in 1..Len(tbl.children) :
              LET child == tbl.children[c]
                  owner == Owners(args.rows, child.table_name, 1)
              IN /\ Len(child.data) = Len(owner)
                 /\ \A j \in 1..Len(owner) :
                        DGet(child.data[j].items, child.fk_field_name)
                            = DGet(tbl.data[owner[j]].items, tbl.pk_name.s)

C13_Witness ==
    /\ Built
    /\ Len(args.rows) = 2
    /\ Len(tbl.children) = 1
    /\ Len(tbl.children[1].data) = 3
    /\ Len(tbl.children[1].children) = 1
    /\ Len(tbl.children[1].children[1].data) = 2
    /\ DGet(tbl.data[1].items, tbl.pk_name.s)
           # DGet(tbl.data[2].items, tbl.pk_name.s)

\* the names of a table and of a table made of one of its nested lists
ParentAndChild ==
    UNION {{<<p.table_name, p.children[c].table_name>> :
               c \in 1..Len(p.children)} : p \in Subtables(tbl)}

Statements(kind, name) ==
    {i \in 1..Len(result.out.stmts) :
        /\ result.out.stmts[i].kind = kind
        /\ result.out.stmts[i].table = name}

\* C19: in what ddl, inserts and sql return, for every child table at any
\* depth the CREATE TABLE of the parent precedes the CREATE TABLE of the
\* child, and every INSERT of the parent precedes every INSERT of the child.
C19_ParentsFirst ==
    (pc = "done" /\ ~IsRaise(result.out))
    => \A pair \in ParentAndChild :
          /\ \A i \in Statements("CREATE", pair[2]) :
                 \E j \in Statements("CREATE", pair[1]) : j < i
          /\ \A i \in Statements("INSERT", pair[2]) :
                 \A j \in Statements("INSERT", pair[1]) : j < i

C19_Witness ==
    /\ pc = "done"
    /\ result.call = "sql"
    /\ ~IsRaise(result.out)
    /\ Statements("CREATE", Toys) # {}
    /\ Statements("INSERT", Toys) # {}
    /\ Len(args.rows) = 2
    /\ Cardinality(Statements("INSERT", Kids)) = 3

\* the names of the columns of a table, in the order they are emitted
Emitted(table) == [i \in 1..Len(table.columns) |-> table.columns[i].name]

\* C21: with reorder, every table that has a primary key emits it first,
\* whether the key was requested by name or made for nesting or force_pk,
\* and the other columns follow in alphabetical order.
C21_KeyFirstThenAlphabetical ==
    (Built /\ args.reorder)
    => \A table \in Subtables(tbl) :
           (table.pk_name # PyNone
            /\ table.pk_name.s \in Range(Emitted(table)))
           => /\ Emitted(table)[1] = table.pk_name.s
              /\ \A i, j \in 2..Len(Emitted(table)) :
                     i < j => StrLess(Emitted(table)[i], Emitted(table)[j])

(***************************************************************************)
(* Properties of the dates (SpecDates)                                     *)
(***************************************************************************)
\* datum.strip().lstrip('-').lstrip('0').rstrip('.')
Cleaned(s) == rstrip(lstrip(lstrip(strip(s), {"-"}), {"0"}), {"."})

PlausibleYear == YearMin < result.year /\ result.year < YearMax

IsToday == <<result.year, result.month, result.day>>
               = <<now.year, now.month, now.day>>

\* the text names the year alone, the parser fills in the rest from today
YearOnly == DigitsOnly(args.s) /\ Len(args.s) = 4

\* C22 as amended: coerce_to_specific returns a Temporal value only when
\* the text, cleaned of blanks, leading '-' and zeros and trailing '.',
\* (a) has at least two separator characters, or (b) is a digit run of
\* length 4, 6, 8, 12, 14 or 17 whose parsed year lies strictly in
\* 1700..2150 and whose parsed date is not today; any other input falls
\* through to the Boolean, Integer, ExactDecimal, Float and Text steps.
C22_TemporalOnlyIfPlausible ==
    (pc = "done" /\ args.t = "str")
    => /\ result.t = "datetime"
          => \/ CountIn(Cleaned(args.s), SeparatorChars) >= 2
             \/ /\ DigitsOnly(Cleaned(args.s))
                /\ Len(Cleaned(args.s)) \in {4, 6, 8, 12, 14, 17}
                /\ PlausibleYear
                /\ ~IsToday
       /\ result.t # "datetime"
          => result \in {PyBool(TRUE), PyBool(FALSE), CoerceNumber(args.s)}

\* a date of the year 461 with two separators is Temporal
C22_Witness ==
    /\ pc = "done"
    /\ args = PyStr(<<"9", " ", "j", "a", "n", " ", "4", "6", "1">>)
    /\ result = PyDatetime(461, 1, 9)

\* C22 as stated: a Temporal value only when both (a), two separators or
\* a digit run of length 4, 6, 8, 12 or 14, and (b), a year strictly in
\* 1700..2150 and no date defaulted to today, hold.
C22_BothConditions ==
    (pc = "done" /\ args.t = "str" /\ result.t = "datetime")
    => /\ \/ CountIn(args.s, SeparatorChars) >= 2
          \/ DigitsOnly(args.s) /\ Len(args.s) \in {4, 6, 8, 12, 14}
       /\ PlausibleYear
       /\ ~(YearOnly /\ IsToday)

(***************************************************************************)
(* Properties of the widener (SpecWiden)                                   *)
(***************************************************************************)
\* len(str(v)), the sign of a number left out
PrintedLength(v) == IF IsNumber(v) THEN Len(Str(Abs(v))) ELSE Len(Str(v))

\* C23: for an old accumulator and a new value of equal rank (Integer,
\* ExactDecimal, Float or Text) the result of best_representative is, the
\* sign ignored, at least as long in print as the old accumulator.
C23_NeverShrinks ==
    (/\ pc = "done"
     /\ args[1].t = args[2].t
     /\ args[1].t \in {"int", "Decimal", "float", "str"})
    => /\ ~IsRaise(result)
       /\ PrintedLength(result) >= PrintedLength(args[1])

(***************************************************************************)
(* Properties of the profiler over the row stream (Spec)                   *)
(***************************************************************************)
\* the coerced values of the column k that are neither null nor blank
ValuesSeen(rows, k) ==
    {coerce_to_specific(r) :
        r \in {x \in Range(ColumnValues(rows, k)) : ~NullOrBlank(x)}}

\* the preference rank of a value, null and blank below every type
RankOf(v) ==
    IF v.t \notin Range(preference) \/ (v.t = "str" /\ strip(v.s) = <<>>)
    THEN -1 ELSE PrefIndex(v)

LeastSpecific(vs) ==
    IF vs = {} THEN -1
    ELSE CHOOSE n \in {RankOf(v) : v \in vs} :
             \A m \in {RankOf(v) : v \in vs} : m <= n

RankNeverNarrows ==
    \A k \in DOMAIN columns \cap DOMAIN columns' :
        RankOf(columns'[k].sample_datum) >= RankOf(columns[k].sample_datum)

RankIsLeastSpecific ==
    \A k \in DOMAIN columns :
        ValuesSeen(data, k) # {} =>
            RankOf(columns[k].sample_datum) = LeastSpecific(ValuesSeen(data, k))

\* C24: as the rows of a column are folded in, the preference rank of its
\* sample_datum never moves to a more specific type, and after each row it is
\* the least specific rank among the non-null values seen so far.
C24_WideningMonotonic == [][RankNeverNarrows]_vars /\ []RankIsLeastSpecific

\* a raw value that is an empty or whitespace-only string
Blank(r) == r.t = "str" /\ strip(r.s) = <<>>

\* the rows with every blank value of the field k taken out
WithoutBlanks(rows, k) ==
    [i \in 1..Len(rows) |->
        IF k \in DOMAIN rows[i] /\ Blank(rows[i][k])
        THEN [f \in DOMAIN rows[i] \ {k} |-> rows[i][f]]
        ELSE rows[i]]

HasBlank(rows, k) ==
    \E i \in 1..Len(rows) : k \in DOMAIN rows[i] /\ Blank(rows[i][k])

\* C25: a column that holds an empty or whitespace-only string in some row,
\* first or later, is nullable, and its inferred type is the type inferred
\* from the same rows with the blank values removed.
C25_BlankIsNoValue ==
    pc = "done" =>
        \A k \in DOMAIN columns :
            HasBlank(data, k) =>
                /\ columns[k].is_nullable
                /\ LET rest == ProfileAll(WithoutBlanks(data, k), args) IN
                   k \in DOMAIN rest => rest[k].satype = columns[k].satype

(***************************************************************************)
(* Properties of the integer key generator (SpecAssignPk)                  *)
(***************************************************************************)
\* the rows of the table that had no key before assign_pk
Keyless == {i \in 1..Len(args.rows) : ~DHas(args.rows[i].items, tbl.pk.name)}

KeyOf(rows, i) == DGet(rows[i].items, tbl.pk.name)

\* C26: with an integer key seeded by use_this_pk, every value that next()
\* returns is greater than every key the table held before and than every
\* value returned earlier; rows that had a key keep it in a partial fill.
C26_KeysIncreaseAboveSeed ==
    (pc = "done" /\ ~IsRaise(tbl) /\ tbl.pk.type = "int")
    => /\ Len(tbl.rows) = Len(args.rows)
       /\ \A i \in Keyless :
             /\ DHas(tbl.rows[i].items, tbl.pk.name)
             /\ KeyOf(tbl.rows, i).t = "int"
             /\ \A j \in (1..Len(args.rows)) \ Keyless :
                   NumLess(KeyOf(args.rows, j), KeyOf(tbl.rows, i))
             /\ \A j \in Keyless :
                   j < i => NumLess(KeyOf(tbl.rows, j), KeyOf(tbl.rows, i))
       /\ \A i \in (1..Len(args.rows)) \ Keyless : tbl.rows[i] = args.rows[i]

\* a partial fill: the middle row holds the key 3, the rows around it get the
\* keys 4 and 5
C26_Witness ==
    /\ pc = "done"
    /\ args.pk_name = PyStr(<<"i", "d">>)
    /\ args.rows = << PyDict(<<>>),
                      PyDict(<<[k |-> <<"i", "d">>, v |-> PyInt(3)]>>),
                      PyDict(<<>>) >>
    /\ ~IsRaise(tbl)
    /\ tbl.pk.type = "int"
    /\ tbl.pk.max = 5
    /\ KeyOf(tbl.rows, 1) = PyInt(4)
    /\ KeyOf(tbl.rows, 2) = PyInt(3)
    /\ KeyOf(tbl.rows, 3) = PyInt(5)

\* a raw value that is a nested mapping or list
NotScalar(r) == r.t \in {"list", "tuple", "dict"}

NestedValues(rows, k) == {r \in Range(ColumnValues(rows, k)) : NotScalar(r)}

\* the rows cut down to the field k
OnlyField(rows, k) ==
    [i \in 1..Len(rows) |-> [f \in DOMAIN rows[i] \cap {k} |-> rows[i][f]]]

\* C27: a value that is not scalar never aborts profiling: its column is
\* recorded as text with a diagnostic comment on that column, and every other
\* field of every row is profiled as it is without the nested values.
C27_NestedValueIsText ==
    pc = "done" =>
        /\ DOMAIN columns = UNION {DOMAIN data[i] : i \in 1..Len(data)}
        /\ \A k \in DOMAIN columns :
              IF NestedValues(data, k) # {}
              THEN /\ columns[k].pytype = "str"
                   /\ columns[k].satype.name \in {"Unicode", "Text"}
                   /\ k \in DOMAIN comments
                   /\ comments[k] \in NestedValues(data, k)
              ELSE /\ k \notin DOMAIN comments
                   /\ columns[k] = ProfileAll(OnlyField(data, k), args)[k]

\* a list in the second of three rows: the column of the integer 7 becomes
\* text with a comment, the other column is profiled from all three rows
C27_Witness ==
    /\ pc = "done"
    /\ Len(data) = 3
    /\ data[1] = [a |-> PyStr(<<"7">>), b |-> PyStr(<<"x">>)]
    /\ data[2] = [a |-> NestedList]
    /\ data[3] = [a |-> PyStr(<<"1", ".", "2", "5">>), b |-> PyStr(<<"x">>)]
    /\ columns["a"].pytype = "str"
    /\ comments = [a |-> NestedList]
    /\ columns["b"].is_nullable
    /\ columns["b"].satype.name \in {"Unicode", "Text"}

(***************************************************************************)
(* Properties of a column of integers (SpecIntegers)                       *)
(***************************************************************************)
\* an integer outside the 32-bit signed range
OutOfRange(v) == NumLess(PyInt(IntMax), v) \/ NumLess(v, PyInt(-IntMax))

\* C28: without cushion, a column of integers that holds a value above
\* 2147483647 or below -2147483647 is typed BigInteger, whatever the order of
\* the rows and whichever of several equally long integers came first.
C28_BigIntegerInAnyOrder ==
    (pc = "done" /\ args.data_size_cushion = 0)
    => \A k \in DOMAIN columns :
           (/\ columns[k].pytype = "int"
            /\ \E r \in Range(ColumnValues(data, k)) :
                   OutOfRange(coerce_to_specific(r)))
           => columns[k].satype.name = "BigInteger"

(***************************************************************************)
(* Conservation of the child rows (SpecLists)                              *)
(***************************************************************************)
\* the child rows returned for the field f, none if f names no child
ChildRows(f) ==
    IF DHas(tbl.children, f) THEN DGet(tbl.children, f) ELSE <<>>

\* the sum of the lengths of the lists of field f over the raw rows
RECURSIVE SumOfLengths(_, _)
SumOfLengths(rows, f) ==
    IF rows = <<>> THEN 0
    ELSE (IF DHas(Head(rows).items, f)
          THEN Len(DGet(Head(rows).items, f).items) ELSE 0)
         + SumOfLengths(Tail(rows), f)

\* C29: for each nested-list field the child record set returned by
\* unnest_children holds exactly the items of the lists of that field over
\* all parent rows, in parent-row order and list order, each once, a scalar
\* item wrapped as {field: item}; its row count is the sum of the list
\* lengths, and no other child is returned.
C29_ChildRowsConserved ==
    (pc = "done" /\ ~IsRaise(tbl))
    => /\ Range(DKeys(tbl.children)) \subseteq ListFields(args.rows)
       /\ \A f \in ListFields(args.rows) :
             /\ Len(ChildRows(f)) = SumOfLengths(args.rows, f)
             /\ \A j \in 1..Len(ChildRows(f)) :
                   \E fk \in Range(DKeys(ChildRows(f)[j].items)) :
                       /\ fk \notin Range(DKeys(ExpectedItems(args.rows, f)[j].items))
                       /\ PyDict(DPop(ChildRows(f)[j].items, fk))
                              = ExpectedItems(args.rows, f)[j]

\* two parent rows: the first holds a scalar and a record, the second a
\* scalar; the three children come out in this order
C29_Witness ==
    /\ pc = "done"
    /\ Len(args.rows) = 2
    /\ \A i \in 1..2 : DHas(args.rows[i].items, Kids)
    /\ DGet(args.rows[1].items, Kids)
           = PyList(<<PyInt(6), PyDict(<<[k |-> <<"v">>, v |-> PyInt(7)]>>)>>)
    /\ DGet(args.rows[2].items, Kids) = PyList(<<PyInt(5)>>)
    /\ tbl.t = "unnested"
    /\ Len(ChildRows(Kids)) = 3
    /\ DGet(ChildRows(Kids)[1].items, Kids) = PyInt(6)
    /\ DGet(ChildRows(Kids)[2].items, <<"v">>) = PyInt(7)
    /\ DGet(ChildRows(Kids)[3].items, Kids) = PyInt(5)

====
